---- MODULE Spec2Model ----
(***************************************************************************)
(* Model of mongoose-slugger: the conflict-retry save protocol of          *)
(* src/lib/sluggerUtils.ts (saveSlugWithRetries) together with the         *)
(* pre('validate') hook of src/lib/slugger.ts, running against a store     *)
(* that enforces two unique indexes (the configured compound slug index    *)
(* and an unrelated unique index on `email`).                              *)
(***************************************************************************)
EXTENDS Integers, Sequences, FiniteSets, TLC

-----------------------------------------------------------------------------
(* Bounds of the model *)

\* number of document instances saved concurrently in Spec
NumDocs == 2
\* largest attempt index the generator is tabulated for; also the largest
\* configured `maxAttempts`
MaxAttemptIdx == 4
\* number of save calls the application issues on one document instance
MaxCalls == 2
\* number of explicit validate() calls on one document instance
MaxValidates == 1

-----------------------------------------------------------------------------
(* Program constants *)

\* e.code === 11000
DupKeyCode == 11000
\* attemptCount >= 3
RepeatLimit == 3

-----------------------------------------------------------------------------
(* Value domains *)

Docs == 1..NumDocs
AttemptIdx == 0..MaxAttemptIdx

\* "no value" of a document path (null / undefined)
NULL == "<null>"
\* a generator value not tabulated yet
UNDEF == "<undef>"
\* values a generator can return
SlugVals == {"john", "john-2", "john-3"}
\* slug values a caller can set explicitly (the empty string is a non-null value)
ExplicitSlugs == {"", "john"}
\* values of the other fields of the compound index (city/country)
Scopes == {"memphis", "berlin"}

\* name of the index configured in SluggerOptions.index
IndexName == "city_country_slug"
\* name of the unrelated unique index of the schema
EmailIndex == "email"
\* `maxAttempts` absent
NoLimit == 0

\* records inserted into the collection before the modelled documents are saved
SeedRecords ==
  { [id |-> 101, scope |-> "memphis", slug |-> "john",   email |-> "s1@x"],
    [id |-> 102, scope |-> "memphis", slug |-> "john-2", email |-> "s2@x"],
    [id |-> 103, scope |-> "memphis", slug |-> "john-3", email |-> "s3@x"],
    [id |-> 104, scope |-> "berlin",  slug |-> "john",   email |-> "a@x"],
    [id |-> 105, scope |-> "memphis", slug |-> "",       email |-> "a@x"] }

\* UniqueOn for a configured index which holds the slug path alone
UniqueOnUnscoped(coll, ix) ==
  \A r1, r2 \in coll :
    r1.id # r2.id =>
      IF ix = IndexName THEN r1.slug # r2.slug
                        ELSE r1.email # r2.email

\* the two unique indexes of the schema, as constraints on a collection
UniqueOn(coll, ix) ==
  \A r1, r2 \in coll :
    r1.id # r2.id =>
      IF ix = IndexName THEN ~(r1.scope = r2.scope /\ r1.slug = r2.slug)
                        ELSE r1.email # r2.email

IndexNames == {IndexName, EmailIndex}

VARIABLES
  generator,    \* options.generator on the documents' source fields, tabulated on demand: attempt -> slug
  maxAttempts,  \* options.maxAttempts (NoLimit when absent)
  store,        \* the collection: set of stored records
  doc,          \* document instances: fields, isNew, the attachment (attached, slugAttempts)
  pc,           \* position of each document's save call
  err,          \* per document: the error the last rejected delegate save raised (e of the catch block)
  thrown,       \* per document: the error the current save call has thrown to its caller
  given,        \* per document: the slug value passed to the constructor (NULL when none)
  writes,       \* per document: slug values submitted by the delegate save in the current call
  genCalls,     \* per document: number of generator invocations so far
  calls,        \* per document: number of save calls started
  validates,    \* per document: number of explicit validate() calls
  budget,       \* per document: how many save and validate() calls the application issues, and whether it passes callbacks
  assigned,     \* per document: the slug value the application supplied last, by constructor or assignment (NULL when none)
  proto,        \* model.prototype: the routine in the `save` slot and the routine in the delegate slot
  hasCheckedMongoDB, \* the wrappers (by number) whose closure variable hasCheckedMongoDB is true
  serverStatus, \* model.db.db and what db.admin().serverStatus() returns
  frames,       \* per document: the wrappers whose invocation is active in the current save call, outermost first
  entered,      \* per document: number of wrapper invocations entered in the current save call
  completion,   \* per document: what the current save call returned to its caller and the callback invocations it made
  schema,       \* the schema: declared paths, indexes, slugger entries in schema.plugins, installed pre('validate') hooks
  raised,       \* what the last registration-time operation (schema.plugin, validateOptions) threw, NoError when it returned
  config,       \* the raw configuration handed to validateOptions last
  opts,         \* the options handed to schema.plugin last
  fields,       \* the values of the generateFrom paths of the document the field-list generator is applied to
  slugOut       \* the last call of the field-list generator: its arguments and the slug it returned

\* the variables of the save protocol
saveVars == <<generator, maxAttempts, store, doc, pc, err, thrown, given, writes, genCalls, calls, validates, budget,
              assigned, proto, hasCheckedMongoDB, serverStatus, frames, entered, completion>>

\* the variables of registration
regVars == <<schema, raised, config, opts>>

\* the variables of the field-list generator
genVars == <<fields, slugOut>>

vars == <<saveVars, regVars, genVars>>

-----------------------------------------------------------------------------
(* Errors *)

NoError == [name |-> "none", code |-> 0, message |-> <<>>]

\* the store's duplicate key error (MongoDB >= 4.2 message format)
DupKeyError(ix) ==
  [name |-> "MongoServerError", code |-> DupKeyCode,
   message |-> <<"E11000 duplicate key error collection: test.slugmodels", "index:", ix, "dup key:", "{ key }">>]

\* failures of the delegate save which are no duplicate key errors
UnrelatedErrors ==
  { [name |-> "ValidationError", code |-> 0, message |-> <<"validation failed">>],
    [name |-> "MongoServerError", code |-> 50, message |-> <<"operation exceeded time limit">>],
    [name |-> "MongoNetworkTimeoutError", code |-> 0, message |-> <<"connection timed out">>] }

SluggerError(msg) == [name |-> "SluggerError", code |-> 0, message |-> msg]

AlreadyAttemptedError(slug, count) ==
  SluggerError(<<"Already attempted slug", slug, ToString(count), "times before. Giving up.">>)

ReachedAttemptsError(count) ==
  SluggerError(<<"Reached", ToString(count), "attempts without being able to insert. Giving up.">>)

\* `new Error(msg)`
PlainError(msg) == [name |-> "Error", code |-> 0, message |-> msg]

-----------------------------------------------------------------------------
(* The model's prototype and the server *)

\* routines which can sit in a slot of model.prototype
OriginalSave == [kind |-> "original", id |-> 0]
Wrapper(n) == [kind |-> "wrapper", id |-> n]
\* an empty slot
NoRoutine == [kind |-> "none", id |-> 0]

\* the prototype of a model as mongoose.model() returns it
UnwrappedProto == [save |-> OriginalSave, delegate |-> NoRoutine, wrappers |-> 0]

\* wrap which fills the delegate slot and leaves the save slot as it is
wrapDelegateOnly(p) == [save |-> p.save, delegate |-> p.save, wrappers |-> p.wrappers]

\* the prototype after wrap(model): the delegate slot takes what the save
\* slot holds, the save slot takes a new wrapper
wrap(p) == [save |-> Wrapper(p.wrappers + 1), delegate |-> p.save, wrappers |-> p.wrappers + 1]

\* the least supported server version
MinVersion == <<4, 2, 0>>

\* semver.lt(a, b) on versions major.minor.patch
semverLt(a, b) ==
  \/ a[1] < b[1]
  \/ a[1] = b[1] /\ a[2] < b[2]
  \/ a[1] = b[1] /\ a[2] = b[2] /\ a[3] < b[3]

\* the server of the test setup: a db handle whose serverStatus() reports a
\* version string
TestServerStatus == [db |-> TRUE, status |-> "object", version |-> "string", semver |-> <<7, 0, 12>>]

\* checkMongoDBVersion(status): the error thrown, NoError when it returns
checkMongoDBVersion(s) ==
  IF s.status # "object" THEN PlainError(<<"status is null or not an object">>)
  ELSE IF s.version = "missing" THEN PlainError(<<"status.version is missing">>)
  ELSE IF s.version # "string" THEN PlainError(<<"status.version is not a string">>)
  ELSE IF semverLt(s.semver, MinVersion)
         THEN PlainError(<<"At least MongoDB version 4.2.0 is required, actual version is",
                           ToString(s.semver[1]), ToString(s.semver[2]), ToString(s.semver[3])>>)
         ELSE NoError

\* checkMongoDB which does not look at the db handle
checkMongoDBNoDb(s) == checkMongoDBVersion(s)

\* checkMongoDB(db): the error thrown, NoError when it returns
checkMongoDB(s) ==
  IF ~s.db THEN PlainError(<<"db is undefined">>) ELSE checkMongoDBVersion(s)

-----------------------------------------------------------------------------
(* Pure helpers of sluggerUtils.ts *)

isMongoError(e) == e.name \in {"MongoError", "BulkWriteError", "MongoServerError"}

\* /index: (.+) dup key:/ on a message given as a sequence of tokens:
\* leftmost "index:" token, greedy group up to the last "dup key:" token,
\* the group being non-empty.  <<>> stands for `undefined` (no match).
extractIndexNameFromError(msg) ==
  LET starts == { i \in 1..Len(msg) : /\ msg[i] = "index:"
                                      /\ \E j \in (i + 2)..Len(msg) : msg[j] = "dup key:" }
  IN  IF starts = {} THEN <<>>
      ELSE LET i == CHOOSE s \in starts : \A t \in starts : s <= t
               j == CHOOSE e \in (i + 2)..Len(msg) :
                      /\ msg[e] = "dup key:"
                      /\ \A f \in (i + 2)..Len(msg) : msg[f] = "dup key:" => f <= e
           IN  SubSeq(msg, i + 1, j - 1)

\* slugAttempts.filter(slug => slug === attemptedSlug).length
attemptCount(slugAttempts, attemptedSlug) ==
  Cardinality({ i \in 1..Len(slugAttempts) : slugAttempts[i] = attemptedSlug })

\* isRetryable without the comparison of the index name
isRetryableAnyIndex(d, e) ==
  /\ isMongoError(e)
  /\ d.attached
  /\ e.code = DupKeyCode
  /\ e.message # <<>>

\* isRetryable without the test for the attachment
isRetryableNoAttachment(d, e) ==
  /\ isMongoError(e)
  /\ e.code = DupKeyCode
  /\ e.message # <<>>
  /\ extractIndexNameFromError(e.message) = <<IndexName>>

\* isRetryable for every error of the store
isRetryableAnyMongo(d, e) ==
  /\ isMongoError(e)
  /\ d.attached

\* isRetryable without the test of the error code
isRetryableAnyCode(d, e) ==
  /\ isMongoError(e)
  /\ d.attached
  /\ e.message # <<>>
  /\ extractIndexNameFromError(e.message) = <<IndexName>>

\* the condition of the retry branch in the catch block
isRetryable(d, e) ==
  /\ isMongoError(e)
  /\ d.attached
  /\ e.code = DupKeyCode
  /\ e.message # <<>>
  /\ extractIndexNameFromError(e.message) = <<IndexName>>

-----------------------------------------------------------------------------
(* The pre('validate') hook of the plugin *)

\* preValidate testing the slug for truthiness (`!this.get(slugPath)`), so
\* that the empty string counts as absent
preValidateFalsy(d, v) ==
  LET a == IF ~d.attached /\ d.slug \in {NULL, ""}
             THEN [d EXCEPT !.attached = TRUE, !.slugAttempts = <<>>]
             ELSE d
  IN  IF a.attached THEN [a EXCEPT !.slug = v] ELSE a

\* the document after the hook, v being what
\* options.generator(this, slugAttachment.slugAttempts.length, maxlength) returns
preValidate(d, v) ==
  LET a == IF ~d.attached /\ d.slug = NULL
             THEN [d EXCEPT !.attached = TRUE, !.slugAttempts = <<>>]
             ELSE d
  IN  IF a.attached THEN [a EXCEPT !.slug = v] ELSE a

\* one invocation of the hook on document i; the generator is invoked, with
\* the length of slugAttempts, exactly if the hook ends with an attachment.
\* the hook of a plugin which sets the generated slug on every document that
\* carries a tracker
HookAllDocuments(i) ==
  LET d == doc[i]
      after == preValidate(d, UNDEF)
  IN  IF after.attached
        THEN /\ Len(after.slugAttempts) \in DOMAIN generator
             /\ \E v \in SlugVals :
                  /\ generator[Len(after.slugAttempts)] \in {UNDEF, v}
                  /\ generator' = [generator EXCEPT ![Len(after.slugAttempts)] = v]
                  /\ doc' = [j \in Docs |->
                               IF j = i THEN preValidate(d, v)
                               ELSE IF doc[j].attached THEN [doc[j] EXCEPT !.slug = v]
                               ELSE doc[j]]
             /\ genCalls' = [genCalls EXCEPT ![i] = @ + 1]
        ELSE /\ doc' = [doc EXCEPT ![i] = after]
             /\ UNCHANGED <<generator, genCalls>>

\* The generator is a function of the attempt index (the documents share
\* their source fields); its value at an index is fixed when it is first
\* evaluated.  Attempt indices beyond the domain of the table (MaxAttemptIdx
\* unless a specification sets up a longer table) are not explored.
Hook(i) ==
  LET d == doc[i]
      after == preValidate(d, UNDEF)
  IN  IF after.attached
        THEN /\ Len(after.slugAttempts) \in DOMAIN generator
             /\ \E v \in SlugVals :
                  /\ generator[Len(after.slugAttempts)] \in {UNDEF, v}
                  /\ generator' = [generator EXCEPT ![Len(after.slugAttempts)] = v]
                  /\ doc' = [doc EXCEPT ![i] = preValidate(d, v)]
             /\ genCalls' = [genCalls EXCEPT ![i] = @ + 1]
        ELSE /\ doc' = [doc EXCEPT ![i] = after]
             /\ UNCHANGED <<generator, genCalls>>

-----------------------------------------------------------------------------
(* saveSlugWithRetries *)

Terminated == {"succeeded", "givingUp", "failed"}

\* catchBlock without the retry branch: every caught error is rethrown
catchBlockNoRetry(d, e, m) == [doc |-> d, pc |-> "failed", thrown |-> e]

\* catchBlock giving up one attempt early (`length >= maxAttempts - 1`)
catchBlockEarly(d, e, m) ==
  IF isRetryable(d, e)
    THEN LET attemptedSlug == d.slug
             count == attemptCount(d.slugAttempts, attemptedSlug)
             pushed == [d EXCEPT !.slugAttempts = Append(@, attemptedSlug)]
         IN  IF count >= RepeatLimit
               THEN [doc |-> d, pc |-> "givingUp", thrown |-> AlreadyAttemptedError(attemptedSlug, count)]
               ELSE IF m # NoLimit /\ Len(pushed.slugAttempts) >= m - 1
                      THEN [doc |-> pushed, pc |-> "givingUp",
                            thrown |-> ReachedAttemptsError(Len(pushed.slugAttempts))]
                      ELSE [doc |-> pushed, pc |-> "attempting", thrown |-> NoError]
    ELSE [doc |-> d, pc |-> "failed", thrown |-> e]

\* catchBlock giving up as soon as a slug is generated a second time
\* (`attemptCount >= 1`)
catchBlockFirstRepeat(d, e, m) ==
  IF isRetryable(d, e)
    THEN LET attemptedSlug == d.slug
             count == attemptCount(d.slugAttempts, attemptedSlug)
             pushed == [d EXCEPT !.slugAttempts = Append(@, attemptedSlug)]
         IN  IF count >= 1
               THEN [doc |-> d, pc |-> "givingUp", thrown |-> AlreadyAttemptedError(attemptedSlug, count)]
               ELSE IF m # NoLimit /\ Len(pushed.slugAttempts) >= m
                      THEN [doc |-> pushed, pc |-> "givingUp",
                            thrown |-> ReachedAttemptsError(Len(pushed.slugAttempts))]
                      ELSE [doc |-> pushed, pc |-> "attempting", thrown |-> NoError]
    ELSE [doc |-> d, pc |-> "failed", thrown |-> e]

\* catchBlock which records the attempted slug at the front of the history
\* (`slugAttempts.unshift(attemptedSlug)`)
catchBlockUnshift(d, e, m) ==
  IF isRetryable(d, e)
    THEN LET attemptedSlug == d.slug
             count == attemptCount(d.slugAttempts, attemptedSlug)
             pushed == [d EXCEPT !.slugAttempts = <<attemptedSlug>> \o @]
         IN  IF count >= RepeatLimit
               THEN [doc |-> d, pc |-> "givingUp", thrown |-> AlreadyAttemptedError(attemptedSlug, count)]
               ELSE IF m # NoLimit /\ Len(pushed.slugAttempts) >= m
                      THEN [doc |-> pushed, pc |-> "givingUp",
                            thrown |-> ReachedAttemptsError(Len(pushed.slugAttempts))]
                      ELSE [doc |-> pushed, pc |-> "attempting", thrown |-> NoError]
    ELSE [doc |-> d, pc |-> "failed", thrown |-> e]

\* catchBlock which records the attempted slug before it counts the repeats
catchBlockPushFirst(d, e, m) ==
  IF isRetryable(d, e)
    THEN LET attemptedSlug == d.slug
             count == attemptCount(d.slugAttempts, attemptedSlug)
             pushed == [d EXCEPT !.slugAttempts = Append(@, attemptedSlug)]
         IN  IF count >= RepeatLimit
               THEN [doc |-> pushed, pc |-> "givingUp", thrown |-> AlreadyAttemptedError(attemptedSlug, count)]
               ELSE IF m # NoLimit /\ Len(pushed.slugAttempts) >= m
                      THEN [doc |-> pushed, pc |-> "givingUp",
                            thrown |-> ReachedAttemptsError(Len(pushed.slugAttempts))]
                      ELSE [doc |-> pushed, pc |-> "attempting", thrown |-> NoError]
    ELSE [doc |-> d, pc |-> "failed", thrown |-> e]

\* catchBlock giving up one attempt late (`length > maxAttempts`)
catchBlockLate(d, e, m) ==
  IF isRetryable(d, e)
    THEN LET attemptedSlug == d.slug
             count == attemptCount(d.slugAttempts, attemptedSlug)
             pushed == [d EXCEPT !.slugAttempts = Append(@, attemptedSlug)]
         IN  IF count >= RepeatLimit
               THEN [doc |-> d, pc |-> "givingUp", thrown |-> AlreadyAttemptedError(attemptedSlug, count)]
               ELSE IF m # NoLimit /\ Len(pushed.slugAttempts) > m
                      THEN [doc |-> pushed, pc |-> "givingUp",
                            thrown |-> ReachedAttemptsError(Len(pushed.slugAttempts))]
                      ELSE [doc |-> pushed, pc |-> "attempting", thrown |-> NoError]
    ELSE [doc |-> d, pc |-> "failed", thrown |-> e]

\* catchBlock which wraps an error it does not retry into a SluggerError
catchBlockWrapsError(d, e, m) ==
  IF isRetryable(d, e)
    THEN LET attemptedSlug == d.slug
             count == attemptCount(d.slugAttempts, attemptedSlug)
             pushed == [d EXCEPT !.slugAttempts = Append(@, attemptedSlug)]
         IN  IF count >= RepeatLimit
               THEN [doc |-> d, pc |-> "givingUp", thrown |-> AlreadyAttemptedError(attemptedSlug, count)]
               ELSE IF m # NoLimit /\ Len(pushed.slugAttempts) >= m
                      THEN [doc |-> pushed, pc |-> "givingUp",
                            thrown |-> ReachedAttemptsError(Len(pushed.slugAttempts))]
                      ELSE [doc |-> pushed, pc |-> "attempting", thrown |-> NoError]
    ELSE [doc |-> d, pc |-> "failed", thrown |-> SluggerError(e.message)]

\* catchBlock with the maxAttempts check before the repeat check
catchBlockMaxFirst(d, e, m) ==
  IF isRetryable(d, e)
    THEN LET attemptedSlug == d.slug
             count == attemptCount(d.slugAttempts, attemptedSlug)
             pushed == [d EXCEPT !.slugAttempts = Append(@, attemptedSlug)]
         IN  IF m # NoLimit /\ Len(pushed.slugAttempts) >= m
               THEN [doc |-> pushed, pc |-> "givingUp",
                     thrown |-> ReachedAttemptsError(Len(pushed.slugAttempts))]
               ELSE IF count >= RepeatLimit
                      THEN [doc |-> d, pc |-> "givingUp", thrown |-> AlreadyAttemptedError(attemptedSlug, count)]
                      ELSE [doc |-> pushed, pc |-> "attempting", thrown |-> NoError]
    ELSE [doc |-> d, pc |-> "failed", thrown |-> e]

\* catchBlock without the maxAttempts check
catchBlockNoMaxAttempts(d, e, m) ==
  IF isRetryable(d, e)
    THEN LET attemptedSlug == d.slug
             count == attemptCount(d.slugAttempts, attemptedSlug)
             pushed == [d EXCEPT !.slugAttempts = Append(@, attemptedSlug)]
         IN  IF count >= RepeatLimit
               THEN [doc |-> d, pc |-> "givingUp", thrown |-> AlreadyAttemptedError(attemptedSlug, count)]
               ELSE [doc |-> pushed, pc |-> "attempting", thrown |-> NoError]
    ELSE [doc |-> d, pc |-> "failed", thrown |-> e]

\* catchBlock with the repeat check off by one (`attemptCount > 3`)
catchBlockRepeatLate(d, e, m) ==
  IF isRetryable(d, e)
    THEN LET attemptedSlug == d.slug
             count == attemptCount(d.slugAttempts, attemptedSlug)
             pushed == [d EXCEPT !.slugAttempts = Append(@, attemptedSlug)]
         IN  IF count > RepeatLimit
               THEN [doc |-> d, pc |-> "givingUp", thrown |-> AlreadyAttemptedError(attemptedSlug, count)]
               ELSE IF m # NoLimit /\ Len(pushed.slugAttempts) >= m
                      THEN [doc |-> pushed, pc |-> "givingUp",
                            thrown |-> ReachedAttemptsError(Len(pushed.slugAttempts))]
                      ELSE [doc |-> pushed, pc |-> "attempting", thrown |-> NoError]
    ELSE [doc |-> d, pc |-> "failed", thrown |-> e]

\* catchBlock without the repeat check
catchBlockNoRepeatCheck(d, e, m) ==
  IF isRetryable(d, e)
    THEN LET pushed == [d EXCEPT !.slugAttempts = Append(@, d.slug)]
         IN  IF m # NoLimit /\ Len(pushed.slugAttempts) >= m
               THEN [doc |-> pushed, pc |-> "givingUp",
                     thrown |-> ReachedAttemptsError(Len(pushed.slugAttempts))]
               ELSE [doc |-> pushed, pc |-> "attempting", thrown |-> NoError]
    ELSE [doc |-> d, pc |-> "failed", thrown |-> e]

\* the catch block: the document, the position of the call and the error thrown
\* (NoError on `continue`), d being the document, e the caught error and m
\* options.maxAttempts
catchBlock(d, e, m) ==
  IF isRetryable(d, e)
    THEN LET attemptedSlug == d.slug
             count == attemptCount(d.slugAttempts, attemptedSlug)
             pushed == [d EXCEPT !.slugAttempts = Append(@, attemptedSlug)]
         IN  IF count >= RepeatLimit
               THEN [doc |-> d, pc |-> "givingUp", thrown |-> AlreadyAttemptedError(attemptedSlug, count)]
               ELSE IF m # NoLimit /\ Len(pushed.slugAttempts) >= m
                      THEN [doc |-> pushed, pc |-> "givingUp",
                            thrown |-> ReachedAttemptsError(Len(pushed.slugAttempts))]
                      ELSE [doc |-> pushed, pc |-> "attempting", thrown |-> NoError]
    ELSE [doc |-> d, pc |-> "failed", thrown |-> e]

\* the wrapper of the callback-aware wrap(): passed a function it returns
\* nothing and invokes the function when the promise settles
wrapperSaveCallbackAware(fn) == [returns |-> IF fn THEN "undefined" ELSE "promise", invokes |-> fn]

\* what the wrapper installed by wrap() returns to its caller and whether it
\* invokes the function passed to it: an async function, it returns a promise
\* whatever it is passed, and hands its argument on as the save options
wrapperSave(fn) == [returns |-> "promise", invokes |-> FALSE]

\* entering routine r for document i: a wrapper awaits the server check
\* unless its closure has checked already; the original routine, and a wrapper
\* past its check, go on to the write
Enter(i, r) ==
  IF r.kind = "wrapper"
    THEN /\ frames' = [frames EXCEPT ![i] = Append(@, r)]
         /\ entered' = [entered EXCEPT ![i] = @ + 1]
         /\ pc' = [pc EXCEPT ![i] = IF r.id \in hasCheckedMongoDB THEN "attempting" ELSE "checking"]
    ELSE /\ pc' = [pc EXCEPT ![i] = "attempting"]
         /\ UNCHANGED <<frames, entered>>

\* the promise of the outermost routine of document i settles: a callback is
\* invoked if the wrapper does so
Settled(i, outcome, e) ==
  /\ pc' = [pc EXCEPT ![i] = outcome]
  /\ thrown' = [thrown EXCEPT ![i] = e]
  /\ frames' = [frames EXCEPT ![i] = <<>>]
  /\ completion' = [completion EXCEPT ![i].notified =
                      IF completion[i].invokes
                        THEN Append(@, [error |-> e, product |-> IF e = NoError THEN doc[i].slug ELSE NULL])
                        ELSE @]

\* error e is thrown out of the innermost active routine of document i: into
\* the catch block of the enclosing saveSlugWithRetries if there is one, to
\* the caller otherwise
Raise(i, outcome, e) ==
  IF Len(frames[i]) > 1
    THEN /\ frames' = [frames EXCEPT ![i] = SubSeq(@, 1, Len(@) - 1)]
         /\ pc' = [pc EXCEPT ![i] = "caught"]
         /\ err' = [err EXCEPT ![i] = e]
         /\ UNCHANGED <<thrown, completion>>
    ELSE /\ Settled(i, outcome, e)
         /\ UNCHANGED err

\* the caller invokes document.save(), with a callback or without: the
\* routine in the save slot of the prototype is entered
Save(i) ==
  /\ pc[i] \in {"idle"} \cup Terminated
  /\ calls[i] < budget[i].calls
  /\ calls' = [calls EXCEPT ![i] = @ + 1]
  /\ frames[i] = <<>>
  /\ \E fn \in budget[i].callbacks :
       completion' = [completion EXCEPT ![i] =
                        [callback |-> fn,
                         returned |-> IF proto.save.kind = "wrapper" THEN wrapperSave(fn).returns ELSE "promise",
                         invokes  |-> proto.save.kind = "wrapper" /\ wrapperSave(fn).invokes,
                         notified |-> <<>>]]
  /\ IF proto.save.kind = "wrapper"
       THEN /\ frames' = [frames EXCEPT ![i] = <<proto.save>>]
            /\ entered' = [entered EXCEPT ![i] = 1]
            /\ pc' = [pc EXCEPT ![i] = IF proto.save.id \in hasCheckedMongoDB THEN "attempting" ELSE "checking"]
       ELSE /\ entered' = [entered EXCEPT ![i] = 0]
            /\ pc' = [pc EXCEPT ![i] = "attempting"]
            /\ UNCHANGED frames
  /\ err' = [err EXCEPT ![i] = NoError]
  /\ thrown' = [thrown EXCEPT ![i] = NoError]
  /\ writes' = [writes EXCEPT ![i] = <<>>]
  /\ UNCHANGED <<generator, maxAttempts, store, doc, given, genCalls, validates, budget,
                 assigned, proto, hasCheckedMongoDB, serverStatus>>
  /\ UNCHANGED <<regVars, genVars>>

\* `await utils.checkMongoDB(model.db.db); hasCheckedMongoDB = true` of the
\* innermost active wrapper of document i
CheckMongoDB(i) ==
  /\ pc[i] = "checking"
  /\ LET e == checkMongoDB(serverStatus)
         w == frames[i][Len(frames[i])]
     IN  IF e = NoError
           THEN /\ hasCheckedMongoDB' = hasCheckedMongoDB \cup {w.id}
                /\ pc' = [pc EXCEPT ![i] = "attempting"]
                /\ UNCHANGED <<err, thrown, frames, completion>>
           ELSE /\ Raise(i, "failed", e)
                /\ UNCHANGED hasCheckedMongoDB
  /\ UNCHANGED <<generator, maxAttempts, store, doc, given, writes, genCalls, calls, validates, budget,
                 assigned, proto, serverStatus, entered>>
  /\ UNCHANGED <<regVars, genVars>>

\* saveFunction without the delegate slot: `document.save`
saveFunctionNoDelegate(p) == p.save

\* `document[delegatedSaveFunction] || document.save`
saveFunction(p) == IF p.delegate # NoRoutine THEN p.delegate ELSE p.save

\* the deepest nesting of wrapper invocations which is explored
MaxDepth == 3

\* saveFunction.call(document): the routine which saveSlugWithRetries calls
\* (the original routine itself on a model which is not wrapped); the
\* original routine runs the hook and submits the write, a wrapper is entered
DelegateSave(i) ==
  /\ pc[i] = "attempting"
  /\ LET f == IF frames[i] = <<>> THEN OriginalSave ELSE saveFunction(proto)
     IN  IF f.kind = "wrapper"
           THEN /\ Len(frames[i]) < MaxDepth
                /\ Enter(i, f)
                /\ UNCHANGED <<generator, doc, genCalls, writes>>
           ELSE /\ Hook(i)
                /\ writes' = [writes EXCEPT ![i] = Append(@, doc'[i].slug)]
                /\ pc' = [pc EXCEPT ![i] = "writing"]
                /\ UNCHANGED <<frames, entered>>
  /\ UNCHANGED <<maxAttempts, store, err, thrown, given, calls, validates, budget,
                 assigned, proto, hasCheckedMongoDB, serverStatus, completion>>
  /\ UNCHANGED <<regVars, genVars>>

\* the record the delegate save submits for document i
Record(i) == [id |-> i, scope |-> doc[i].scope, slug |-> doc[i].slug, email |-> doc[i].email]

\* Violated for a store which does not enforce the configured index
ViolatedNotUnique(i) ==
  LET others == { r \in store : r.id # i }
  IN  { ix \in IndexNames \ {IndexName} : ~UniqueOn(others \cup {Record(i)}, ix) }

\* the unique indexes which the write of document i would violate
Violated(i) ==
  LET others == { r \in store : r.id # i }
  IN  { ix \in IndexNames : ~UniqueOn(others \cup {Record(i)}, ix) }

\* the original routine rejects with e: into the catch block of
\* saveSlugWithRetries, or to the caller of a model which is not wrapped
Rejected(i, e) ==
  IF frames[i] = <<>>
    THEN /\ Settled(i, "failed", e)
         /\ UNCHANGED err
    ELSE /\ err' = [err EXCEPT ![i] = e]
         /\ pc' = [pc EXCEPT ![i] = "caught"]
         /\ UNCHANGED <<thrown, frames, completion>>

\* the store decides the write of document i atomically
StoreWrite(i) ==
  /\ pc[i] = "writing"
  /\ \/ /\ Violated(i) = {}
        /\ store' = { r \in store : r.id # i } \cup {Record(i)}
        /\ Settled(i, "succeeded", NoError)
        /\ UNCHANGED err
     \/ /\ \E ix \in Violated(i) : Rejected(i, DupKeyError(ix))
        /\ UNCHANGED store
     \/ /\ \E e \in UnrelatedErrors : Rejected(i, e)
        /\ UNCHANGED store
  /\ UNCHANGED <<generator, maxAttempts, doc, given, writes, genCalls, calls, validates, budget,
                 assigned, proto, hasCheckedMongoDB, serverStatus, entered>>
  /\ UNCHANGED <<regVars, genVars>>

\* the rejected delegate save is handled by the catch block
Catch(i) ==
  /\ pc[i] = "caught"
  /\ LET r == catchBlock(doc[i], err[i], maxAttempts) IN
       /\ doc' = [doc EXCEPT ![i] = r.doc]
       /\ IF r.pc = "attempting"
            THEN /\ pc' = [pc EXCEPT ![i] = r.pc]
                 /\ thrown' = [thrown EXCEPT ![i] = r.thrown]
                 /\ UNCHANGED <<err, frames, completion>>
            ELSE Raise(i, r.pc, r.thrown)
  /\ UNCHANGED <<generator, maxAttempts, store, given, writes, genCalls, calls, validates, budget,
                 assigned, proto, hasCheckedMongoDB, serverStatus, entered>>
  /\ UNCHANGED <<regVars, genVars>>

\* the caller invokes validate() on document i outside of a save call
Validate(i) ==
  /\ pc[i] \in {"idle"} \cup Terminated
  /\ validates[i] < budget[i].validates
  /\ validates' = [validates EXCEPT ![i] = @ + 1]
  /\ Hook(i)
  /\ UNCHANGED <<maxAttempts, store, pc, err, thrown, given, writes, calls, budget,
                 assigned, proto, hasCheckedMongoDB, serverStatus, frames, entered, completion>>
  /\ UNCHANGED <<regVars, genVars>>

\* the application assigns v to the slug path of document i between two calls
\* (`doc.slug = v`; NULL unsets the path)
SetSlug(i) ==
  /\ pc[i] \in {"idle"} \cup Terminated
  /\ \E v \in ({NULL} \cup ExplicitSlugs) \ {doc[i].slug} :
       /\ doc' = [doc EXCEPT ![i].slug = v]
       /\ assigned' = [assigned EXCEPT ![i] = v]
  /\ UNCHANGED <<generator, maxAttempts, store, pc, err, thrown, given, writes, genCalls, calls, validates,
                 budget, proto, hasCheckedMongoDB, serverStatus, frames, entered, completion>>
  /\ UNCHANGED <<regVars, genVars>>

-----------------------------------------------------------------------------
(* validateOptions *)

\* JavaScript values a raw configuration can hold at a property
JsUndefined == [type |-> "undefined", str |-> "", num |-> 0, nan |-> FALSE]
JsString(x) == [type |-> "string", str |-> x, num |-> 0, nan |-> FALSE]
JsNumber(n) == [type |-> "number", str |-> "", num |-> n, nan |-> FALSE]
JsNaN == [type |-> "number", str |-> "", num |-> 0, nan |-> TRUE]
JsArray == [type |-> "array", str |-> "", num |-> 0, nan |-> FALSE]
JsFunction == [type |-> "function", str |-> "", num |-> 0, nan |-> FALSE]

\* `!v`
falsy(v) ==
  \/ v.type = "undefined"
  \/ v.type = "string" /\ v.str = ""
  \/ v.type = "number" /\ (v.nan \/ v.num = 0)

\* `typeof v === 'number' && v < 1`: a comparison with NaN is false
numberBelowOne(v) == v.type = "number" /\ ~v.nan /\ v.num < 1

\* `validateOptions()`: no argument
NoConfig == [present |-> FALSE, index |-> JsUndefined, generateFrom |-> JsUndefined,
             maxLength |-> JsUndefined, maxAttempts |-> JsUndefined]

\* the raw configurations handed to validateOptions
RawConfigs ==
  {NoConfig} \cup
  [present : {TRUE},
   index : {JsUndefined, JsString(""), JsString("slug_ix")},
   generateFrom : {JsUndefined, JsString(""), JsString("name"), JsNumber(0), JsNumber(1), JsArray, JsFunction},
   maxLength : {JsUndefined, JsString("5"), JsNaN, JsNumber(-1), JsNumber(0), JsNumber(1), JsNumber(2)},
   maxAttempts : {JsUndefined, JsString("5"), JsNaN, JsNumber(-1), JsNumber(0), JsNumber(1), JsNumber(2)}]

\* validateOptions(init): the error thrown, NoError when it returns
validateOptions(init) ==
  IF ~init.present THEN PlainError(<<"options are missing.">>)
  ELSE IF falsy(init.index) THEN PlainError(<<"index is missing.">>)
  ELSE IF falsy(init.generateFrom) THEN PlainError(<<"generateFrom is missing.">>)
  ELSE IF numberBelowOne(init.maxLength) THEN PlainError(<<"maxLength must be at least one.">>)
  ELSE IF numberBelowOne(init.maxAttempts) THEN PlainError(<<"maxAttempts must be at least one.">>)
  ELSE IF init.generateFrom.type \notin {"function", "string", "array"}
         THEN PlainError(<<"generateFrom must be a string, array, or function.">>)
         ELSE NoError

\* a caller validates a raw configuration
ValidateOptions ==
  /\ \E c \in RawConfigs :
       /\ config' = c
       /\ raised' = validateOptions(c)
  /\ UNCHANGED <<schema, opts, saveVars, genVars>>

-----------------------------------------------------------------------------
(* The plugin: registration on a schema *)

\* the largest number of schema.plugin(plugin, ...) calls on one schema
MaxAttachments == 3

\* paths a schema declares or a configuration names
PathNames == {"slug", "name"}

\* the indexes a schema can declare
SchemaIndexes ==
  [name : {"slug_ix", "name_ix"}, unique : BOOLEAN, paths : {{"slug"}, {"name"}, {"name", "slug"}}]

\* `maxlength` in the options of a schema path: absent, a number, or the
\* array form [number, message] of Mongoose's validator declarations
NotDeclared == [form |-> "none", num |-> 0]

\* Number.MAX_SAFE_INTEGER: as a length limit it cuts nothing, and the
\* generator is modelled as called without limit
MaxSafeInteger == [type |-> "number", str |-> "MAX_SAFE_INTEGER", num |-> NoLimit, nan |-> FALSE]

\* the `maxlength` the plugin selects for its hook: options.maxLength if it
\* is a number, else the maxlength of the slug path if that is a number,
\* else Number.MAX_SAFE_INTEGER
maxlength(optMaxLength, declared) ==
  IF optMaxLength.type = "number" THEN optMaxLength
  ELSE IF declared.form = "number" THEN JsNumber(declared.num)
  ELSE MaxSafeInteger

\* the options of the save protocol's model
TestOptions == [present |-> TRUE, slugPath |-> "slug", index |-> "slug_ix"]

\* the second argument of schema.plugin: none, or options naming a slug path
\* the schema of the save protocol's model: the slug path, the configured
\* unique index, and the plugin attached once
TestSchema ==
  [paths |-> {"name", "slug"},
   indexes |-> {[name |-> "slug_ix", unique |-> TRUE, paths |-> {"name", "slug"}]},
   plugins |-> 1,
   first |-> TestOptions,
   hooks |-> 1,
   maxlength |-> [p \in PathNames |-> NotDeclared],
   hookMaxlength |-> MaxSafeInteger]

\* and an index
NoOptions == [present |-> FALSE, slugPath |-> "slug", index |-> "slug_ix"]

PluginOptions ==
  {NoOptions} \cup [present : {TRUE}, slugPath : PathNames, index : {"slug_ix", "name_ix", "other_ix"}]

\* indices.find(entry => entry.length > 1 && entry[1].name === options.index)
findIndex(sch, name) == { ix \in sch.indexes : ix.name = name }

\* plugin which tests for the index before it tests for the slug path
pluginIndexFirst(sch, options) ==
  IF ~options.present THEN PlainError(<<"options are missing.">>)
  ELSE IF sch.plugins > 1 THEN PlainError(<<"slugger was added more than once.">>)
  ELSE IF findIndex(sch, options.index) = {}
         THEN PlainError(<<"schema contains no index with name", options.index>>)
  ELSE IF options.slugPath \notin sch.paths
         THEN PlainError(<<"the slug path", options.slugPath, "does not exist in the schema.">>)
  ELSE LET index == CHOOSE ix \in findIndex(sch, options.index) : TRUE
       IN  IF ~index.unique THEN PlainError(<<"the index", options.index, "is not unique.">>)
           ELSE IF options.slugPath \notin index.paths
                  THEN PlainError(<<"the index", options.index, "does not contain the slug path", options.slugPath>>)
                  ELSE NoError

\* plugin which takes a second slugger entry for in order (`plugins.length > 2`)
pluginCountLate(sch, options) ==
  IF ~options.present THEN PlainError(<<"options are missing.">>)
  ELSE IF sch.plugins > 2 THEN PlainError(<<"slugger was added more than once.">>)
  ELSE IF options.slugPath \notin sch.paths
         THEN PlainError(<<"the slug path", options.slugPath, "does not exist in the schema.">>)
  ELSE IF findIndex(sch, options.index) = {}
         THEN PlainError(<<"schema contains no index with name", options.index>>)
  ELSE LET index == CHOOSE ix \in findIndex(sch, options.index) : TRUE
       IN  IF ~index.unique THEN PlainError(<<"the index", options.index, "is not unique.">>)
           ELSE IF options.slugPath \notin index.paths
                  THEN PlainError(<<"the index", options.index, "does not contain the slug path", options.slugPath>>)
                  ELSE NoError

\* plugin(schema, options) up to the installation of the hook: the error
\* thrown, NoError when the hook is installed; sch is the schema with the
\* entry of this attachment in schema.plugins already
plugin(sch, options) ==
  IF ~options.present THEN PlainError(<<"options are missing.">>)
  ELSE IF sch.plugins > 1 THEN PlainError(<<"slugger was added more than once.">>)
  ELSE IF options.slugPath \notin sch.paths
         THEN PlainError(<<"the slug path", options.slugPath, "does not exist in the schema.">>)
  ELSE IF findIndex(sch, options.index) = {}
         THEN PlainError(<<"schema contains no index with name", options.index>>)
  ELSE LET index == CHOOSE ix \in findIndex(sch, options.index) : TRUE
       IN  IF ~index.unique THEN PlainError(<<"the index", options.index, "is not unique.">>)
           ELSE IF options.slugPath \notin index.paths
                  THEN PlainError(<<"the index", options.index, "does not contain the slug path", options.slugPath>>)
                  ELSE NoError

\* schema.plugin(plugin, options): the schema records the entry in
\* schema.plugins, then calls plugin(schema, options), which installs the
\* pre('validate') hook unless it throws
Attach ==
  /\ schema.plugins < MaxAttachments
  /\ \E o \in PluginOptions :
       LET sch == [schema EXCEPT !.plugins = @ + 1,
                                 !.first = IF schema.plugins = 0 THEN o ELSE @]
           e == plugin(sch, o)
       IN  /\ opts' = o
           /\ raised' = e
           /\ schema' = [sch EXCEPT !.hooks = IF e = NoError THEN @ + 1 ELSE @,
                                    !.hookMaxlength =
                                       IF e = NoError
                                         THEN maxlength(config.maxLength, sch.maxlength[o.slugPath])
                                         ELSE @]
  /\ UNCHANGED <<config, saveVars, genVars>>

\* wrap which installs the wrapper without looking at the schema
wrapModelUnchecked(sch, p) == [raised |-> NoError, proto |-> wrap(p)]

\* wrap(model) as a whole: the error it throws, NoError when it returns, and
\* the prototype it leaves; a schema without slugger entry and a first entry
\* without options are refused before the prototype is touched
wrapModel(sch, p) ==
  IF sch.plugins = 0
    THEN [raised |-> PlainError(<<"slugger was not added to this model's schema.">>), proto |-> p]
  ELSE IF ~sch.first.present
    THEN [raised |-> PlainError(<<"attached opts are not of type SluggerOptions.">>), proto |-> p]
    ELSE [raised |-> NoError, proto |-> wrap(p)]

\* the application calls wrap(model); models are wrapped at most MaxDepth times
WrapModel ==
  /\ proto.wrappers < MaxDepth
  /\ LET r == wrapModel(schema, proto) IN
       /\ raised' = r.raised
       /\ proto' = r.proto
  /\ UNCHANGED <<generator, maxAttempts, store, doc, pc, err, thrown, given, writes, genCalls, calls,
                 validates, budget, assigned, hasCheckedMongoDB, serverStatus, frames, entered,
                 completion>>
  /\ UNCHANGED <<schema, config, opts, genVars>>

-----------------------------------------------------------------------------
(* The field-list generator *)

\* the longest field value, the largest attempt index and the largest
\* maxLength with which the field-list generator is called
MaxFieldLen == 2

MaxGenAttempt == 9

MaxLength == 3

\* the maxlength declarations of a schema path
Declarations == {NotDeclared} \cup [form : {"number", "array"}, num : 1..MaxLength]

\* strings are sequences of characters; field values are written in these
Alphabet == {"Ä", "_", "2"}

Strings(n) == UNION { [1..k -> Alphabet] : k \in 0..n }

\* `doc.get(path)`: undefined for a value which is missing, a string otherwise
FieldValues ==
  {[present |-> FALSE, chars |-> <<>>]} \cup { [present |-> TRUE, chars |-> w] : w \in Strings(MaxFieldLen) }

\* createDefaultGenerator(['firstname', 'lastname'])
TestPaths == <<"firstname", "lastname">>

\* Array.prototype.join('-'): undefined and null elements give the empty
\* string, the separator is written between every two elements
RECURSIVE join(_)
join(values) ==
  LET str(v) == IF v.present THEN v.chars ELSE <<>> IN
    IF values = <<>> THEN <<>>
    ELSE IF Len(values) = 1 THEN str(values[1])
    ELSE str(values[1]) \o <<"-">> \o join(Tail(values))

\* fixedMapping of limaxFixed
fixedMapping(c) ==
  CASE c = "ä" -> <<"a", "e">>
    [] c = "Ä" -> <<"A", "e">>
    [] c = "ö" -> <<"o", "e">>
    [] c = "Ö" -> <<"O", "e">>
    [] c = "ü" -> <<"u", "e">>
    [] c = "Ü" -> <<"U", "e">>
    [] OTHER -> <<c>>

\* `fixedInput.replaceAll(mapping[0], mapping[1])` for every mapping
RECURSIVE replaceAllFixed(_)
replaceAllFixed(input) ==
  IF input = <<>> THEN <<>> ELSE fixedMapping(Head(input)) \o replaceAllFixed(Tail(input))

\* limax on one character: the custom mapping of '_' to '-', lower case
limaxChar(c) ==
  CASE c = "_" -> "-"
    [] c = "A" -> "a"
    [] c = "O" -> "o"
    [] c = "U" -> "u"
    [] OTHER -> c

\* limax(input, { custom: { _: '-' } }): the characters are mapped, runs of
\* the separator become one separator, separators at both ends are dropped
RECURSIVE limaxFrom(_, _)
limaxFrom(out, input) ==
  IF input = <<>>
    THEN IF out # <<>> /\ out[Len(out)] = "-" THEN SubSeq(out, 1, Len(out) - 1) ELSE out
    ELSE LET c == limaxChar(Head(input)) IN
           IF c = "-" /\ (out = <<>> \/ out[Len(out)] = "-")
             THEN limaxFrom(out, Tail(input))
             ELSE limaxFrom(Append(out, c), Tail(input))

limax(input) == limaxFrom(<<>>, input)

limaxFixed(input) == limax(replaceAllFixed(input))

\* the decimal digits of a natural number, as the template literal writes it
RECURSIVE Digits(_)
Digits(n) ==
  LET digit(k) == <<"0", "1", "2", "3", "4", "5", "6", "7", "8", "9">>[k + 1] IN
    IF n < 10 THEN <<digit(n)>> ELSE Append(Digits(n \div 10), digit(n % 10))

\* String.prototype.substring(0, end): end is clamped to 0 and to the length
substring(str, end) ==
  LET e == IF end < 0 THEN 0 ELSE IF end > Len(str) THEN Len(str) ELSE end IN
    SubSeq(str, 1, e)

\* str.replace(/-$/, ''): one separator at the end is removed
replaceTrailingHyphen(str) ==
  IF str # <<>> /\ str[Len(str)] = "-" THEN SubSeq(str, 1, Len(str) - 1) ELSE str

\* the generator with the disambiguator equal to the attempt index
createDefaultGeneratorSuffixAttempt(paths, d, attempt, maxLength) ==
  LET values == [k \in 1..Len(paths) |-> d[paths[k]]]
      slug == limaxFixed(join(values))
      suffix == IF attempt > 0 THEN <<"-">> \o Digits(attempt) ELSE <<>>
      trimmedSlug == IF maxLength # NoLimit
                       THEN replaceTrailingHyphen(substring(slug, maxLength - Len(suffix)))
                       ELSE slug
  IN  trimmedSlug \o suffix

\* the generator which disambiguates from the third attempt on only
createDefaultGeneratorSuffixLate(paths, d, attempt, maxLength) ==
  LET values == [k \in 1..Len(paths) |-> d[paths[k]]]
      slug == limaxFixed(join(values))
      suffix == IF attempt > 1 THEN <<"-">> \o Digits(attempt + 1) ELSE <<>>
      trimmedSlug == IF maxLength # NoLimit
                       THEN replaceTrailingHyphen(substring(slug, maxLength - Len(suffix)))
                       ELSE slug
  IN  trimmedSlug \o suffix

\* createDefaultGenerator(paths)(d, attempt, maxLength); maxLength = NoLimit
\* stands for a call without maxLength
createDefaultGenerator(paths, d, attempt, maxLength) ==
  LET values == [k \in 1..Len(paths) |-> d[paths[k]]]
      slug == limaxFixed(join(values))
      suffix == IF attempt > 0 THEN <<"-">> \o Digits(attempt + 1) ELSE <<>>
      trimmedSlug == IF maxLength # NoLimit
                       THEN replaceTrailingHyphen(substring(slug, maxLength - Len(suffix)))
                       ELSE slug
  IN  trimmedSlug \o suffix

\* the field-list generator is called on the document
Generate ==
  /\ \E attempt \in 0..MaxGenAttempt, maxLength \in {NoLimit} \cup (1..MaxLength) :
       slugOut' = [called |-> TRUE, attempt |-> attempt, maxLength |-> maxLength,
                   slug |-> createDefaultGenerator(TestPaths, fields, attempt, maxLength)]
  /\ UNCHANGED <<fields, saveVars, regVars>>

\* no field-list generator has been called
NoSlugOut == [called |-> FALSE, attempt |-> 0, maxLength |-> 0, slug |-> <<>>]

InitNoGenerator ==
  /\ fields = <<>>
  /\ slugOut = NoSlugOut

-----------------------------------------------------------------------------
(* Specifications *)

\* a document instance as constructed by `new Model({...})`
NewDocs ==
  [scope : Scopes, email : {"a@x", "b@x", "c@x", "d@x"}, slug : {NULL} \cup ExplicitSlugs,
   attached : {FALSE}, slugAttempts : {<<>>}]

\* the email addresses of the documents which are saved concurrently
DocEmail == <<"a@x", "b@x", "c@x", "d@x">>

\* the schema with the plugin registered, as the save protocol needs it
InitRegistered ==
  /\ schema = TestSchema
  /\ opts = TestOptions
  /\ raised = NoError
  /\ config = NoConfig

InitOptions ==
  /\ InitRegistered
  /\ InitNoGenerator
  /\ generator = [n \in AttemptIdx |-> UNDEF]
  /\ maxAttempts \in {NoLimit} \cup (1..MaxAttemptIdx)
  /\ err = [i \in Docs |-> NoError]
  /\ thrown = [i \in Docs |-> NoError]
  /\ writes = [i \in Docs |-> <<>>]
  /\ genCalls = [i \in Docs |-> 0]
  /\ calls = [i \in Docs |-> 0]
  /\ validates = [i \in Docs |-> 0]
  /\ proto = wrap(UnwrappedProto)
  /\ hasCheckedMongoDB = {}
  /\ frames = [i \in Docs |-> <<>>]
  /\ entered = [i \in Docs |-> 0]
  /\ completion = [i \in Docs |-> [callback |-> FALSE, returned |-> "nothing", invokes |-> FALSE, notified |-> <<>>]]

\* NumDocs documents, each saved once, are saved concurrently into an empty
\* collection; the first of them may be validated explicitly as well
Init ==
  /\ InitOptions
  /\ store = {}
  /\ doc \in { f \in [Docs -> NewDocs] :
                 \A i \in Docs : f[i].email = DocEmail[i] /\ f[i].slug # "" }
  /\ given = [i \in Docs |-> doc[i].slug]
  /\ assigned = given
  /\ serverStatus = TestServerStatus
  /\ pc = [i \in Docs |-> "idle"]
  /\ budget = [i \in Docs |-> [calls |-> 1, validates |-> IF i = 1 THEN 1 ELSE 0, callbacks |-> {FALSE}]]

\* one document is saved, up to MaxCalls times, into a collection which
\* holds earlier records
InitSeq ==
  /\ InitOptions
  /\ store \in { s \in SUBSET SeedRecords : \A ix \in IndexNames : UniqueOn(s, ix) }
  /\ doc \in { f \in [Docs -> NewDocs] :
                 /\ f[1].email \in {"a@x", "b@x"}
                 /\ \A i \in Docs \ {1} : f[i] = f[1] }
  /\ given = [i \in Docs |-> doc[i].slug]
  /\ assigned = given
  /\ serverStatus = TestServerStatus
  /\ pc = [i \in Docs |-> IF i = 1 THEN "idle" ELSE "absent"]
  /\ budget = [i \in Docs |-> [calls |-> MaxCalls, validates |-> MaxValidates, callbacks |-> {FALSE}]]

Next ==
  \E i \in Docs :
    \/ Save(i)
    \/ CheckMongoDB(i)
    \/ DelegateSave(i)
    \/ StoreWrite(i)
    \/ Catch(i)
    \/ Validate(i)

Spec == Init /\ [][Next]_vars

SpecSeq == InitSeq /\ [][Next]_vars

\* errors with which a delegate save can reject: every combination of name,
\* code and message
StoreErrors ==
  [name : {"MongoError", "BulkWriteError", "MongoServerError", "MongoNetworkTimeoutError", "ValidationError"},
   code : {DupKeyCode, 50},
   message : { <<>>,
               DupKeyError(IndexName).message,
               DupKeyError(EmailIndex).message,
               <<"E11000 duplicate key error collection: test.slugmodels", "dup key:", "{ key }">>,
               <<"E11000 duplicate key error collection: test.slugmodels", "index:", IndexName>>,
               <<"foo">> }]

\* the first write of the first save call of a document has been rejected
\* with one of these errors and the catch block is about to handle it
InitCatch ==
  /\ InitRegistered
  /\ InitNoGenerator
  /\ maxAttempts \in {NoLimit} \cup (1..MaxAttemptIdx)
  /\ store \in SUBSET { r \in SeedRecords : r.id = 101 }
  /\ given \in [Docs -> {NULL, "john"}] /\ \A i \in Docs : given[i] = given[1]
  /\ assigned = given
  /\ \E v \in SlugVals :
       /\ generator = [n \in AttemptIdx |-> IF n = 0 /\ given[1] = NULL THEN v ELSE UNDEF]
       /\ doc = [i \in Docs |->
                   [scope |-> "memphis", email |-> "b@x",
                    slug |-> IF given[1] = NULL THEN v ELSE given[1],
                    attached |-> given[1] = NULL, slugAttempts |-> <<>>]]
  /\ writes = [i \in Docs |-> IF i = 1 THEN <<doc[1].slug>> ELSE <<>>]
  /\ genCalls = [i \in Docs |-> IF i = 1 /\ given[1] = NULL THEN 1 ELSE 0]
  /\ pc = [i \in Docs |-> IF i = 1 THEN "caught" ELSE "absent"]
  /\ err \in [Docs -> StoreErrors] /\ \A i \in Docs : err[i] = err[1]
  /\ thrown = [i \in Docs |-> NoError]
  /\ calls = [i \in Docs |-> IF i = 1 THEN 1 ELSE 0]
  /\ validates = [i \in Docs |-> 0]
  /\ budget = [i \in Docs |-> [calls |-> 1, validates |-> 0, callbacks |-> {FALSE}]]
  /\ proto = wrap(UnwrappedProto)
  /\ hasCheckedMongoDB = {proto.save.id}
  /\ serverStatus = TestServerStatus
  /\ frames = [i \in Docs |-> IF i = 1 THEN <<proto.save>> ELSE <<>>]
  /\ entered = [i \in Docs |-> IF i = 1 THEN 1 ELSE 0]
  /\ completion = [i \in Docs |-> [callback |-> FALSE,
                                    returned |-> IF i = 1 THEN "promise" ELSE "nothing",
                                    invokes |-> FALSE, notified |-> <<>>]]

NextCatch ==
  \E i \in Docs :
    \/ Catch(i)
    \/ DelegateSave(i)
    \/ StoreWrite(i)

SpecCatch == InitCatch /\ [][NextCatch]_vars

\* a sequence of characters as the string the document and the store hold
RECURSIVE toString(_)
toString(chars) == IF chars = <<>> THEN "" ELSE Head(chars) \o toString(Tail(chars))

\* the maxlength the hook hands to the generator when the slug path declares
\* no maxlength, for an options.maxLength which is absent or at least one
hookMaxLength(c) == maxlength(c.maxLength, NotDeclared).num

\* documents named 'john' with a last name which is missing or a number
JohnDocuments ==
  [firstname : {[present |-> TRUE, chars |-> <<"j", "o", "h", "n">>]},
   lastname : {[present |-> FALSE, chars |-> <<>>],
               [present |-> TRUE, chars |-> <<"2">>],
               [present |-> TRUE, chars |-> <<"3">>]}]

\* configurations with the field-list generator, without maxLength or with
\* one around the length of 'john-2'
JohnConfigs ==
  [present : {TRUE}, index : {JsString("slug_ix")}, generateFrom : {JsArray},
   maxLength : {JsUndefined, JsNumber(5), JsNumber(6), JsNumber(7)}, maxAttempts : {JsUndefined}]

\* a fresh document is saved once into a collection which holds some of the
\* candidates; the generator is the field-list generator under the
\* configured maxLength
InitTrunc ==
  /\ schema = TestSchema
  /\ opts = TestOptions
  /\ raised = NoError
  /\ config \in JohnConfigs
  /\ fields \in JohnDocuments
  /\ slugOut = NoSlugOut
  /\ generator = [n \in AttemptIdx |->
                    toString(createDefaultGenerator(TestPaths, fields, n, hookMaxLength(config)))]
  /\ maxAttempts \in {NoLimit} \cup (1..MaxAttemptIdx)
  /\ store \in SUBSET { r \in SeedRecords : r.scope = "memphis" /\ r.slug \in SlugVals }
  /\ doc = [i \in Docs |-> [scope |-> "memphis", email |-> "b@x", slug |-> NULL,
                             attached |-> FALSE, slugAttempts |-> <<>>]]
  /\ given = [i \in Docs |-> NULL]
  /\ assigned = given
  /\ pc = [i \in Docs |-> IF i = 1 THEN "idle" ELSE "absent"]
  /\ err = [i \in Docs |-> NoError]
  /\ thrown = [i \in Docs |-> NoError]
  /\ writes = [i \in Docs |-> <<>>]
  /\ genCalls = [i \in Docs |-> 0]
  /\ calls = [i \in Docs |-> 0]
  /\ validates = [i \in Docs |-> 0]
  /\ budget = [i \in Docs |-> [calls |-> 1, validates |-> MaxValidates, callbacks |-> {FALSE}]]
  /\ proto = wrap(UnwrappedProto)
  /\ hasCheckedMongoDB = {}
  /\ serverStatus = TestServerStatus
  /\ frames = [i \in Docs |-> <<>>]
  /\ entered = [i \in Docs |-> 0]
  /\ completion = [i \in Docs |-> [callback |-> FALSE, returned |-> "nothing", invokes |-> FALSE, notified |-> <<>>]]

SpecTrunc == InitTrunc /\ [][Next]_vars

\* a step of a save call of document i which is under way: the continuation
\* of an awaited promise, or the answer of the store to a write
CallStep(i) == CheckMongoDB(i) \/ DelegateSave(i) \/ StoreWrite(i) \/ Catch(i)

\* the records which writers other than the modelled documents insert while
\* the save calls run: at most MaxOtherWrites of them, in the documents' scope
MaxOtherWrites == 2

OtherRecords ==
  [id : 201..(200 + MaxOtherWrites), scope : {"memphis"}, slug : SlugVals, email : {"o@x"}]

\* another writer inserts a record; the store accepts it if the unique
\* indexes allow it (the writers' email addresses are not modelled: they
\* differ from each other and from the documents')
OtherWrite ==
  /\ \E r \in OtherRecords :
       /\ \A q \in store : q.id # r.id
       /\ UniqueOn(store \cup {r}, IndexName)
       /\ store' = store \cup {r}
  /\ UNCHANGED <<generator, maxAttempts, doc, pc, err, thrown, given, writes, genCalls, calls,
                 validates, budget, assigned, proto, hasCheckedMongoDB, serverStatus, frames,
                 entered, completion>>
  /\ UNCHANGED <<regVars, genVars>>

\* a fresh document is saved once while other writers insert records
InitLive ==
  /\ InitOptions
  /\ store \in SUBSET { r \in SeedRecords : r.id = 101 }
  /\ doc \in { f \in [Docs -> NewDocs] :
                 /\ f[1].email = "b@x"
                 /\ f[1].scope = "memphis"
                 /\ \A i \in Docs \ {1} : f[i] = f[1] }
  /\ given = [i \in Docs |-> doc[i].slug]
  /\ assigned = given
  /\ serverStatus = TestServerStatus
  /\ pc = [i \in Docs |-> IF i = 1 THEN "idle" ELSE "absent"]
  /\ budget = [i \in Docs |-> [calls |-> 1, validates |-> 0, callbacks |-> {FALSE}]]

NextLive ==
  \/ \E i \in Docs :
       \/ Save(i)
       \/ CheckMongoDB(i)
       \/ DelegateSave(i)
       \/ StoreWrite(i)
       \/ Catch(i)
  \/ OtherWrite

\* the event loop runs every continuation which is ready, and the store
\* answers every write
SpecLive == InitLive /\ [][NextLive]_vars /\ \A i \in Docs : WF_vars(CallStep(i))

\* another writer removes a record it inserted, or one of the records the
\* collection held at the start
OtherRemove ==
  /\ \E r \in store :
       /\ r.id \notin Docs
       /\ store' = store \ {r}
  /\ UNCHANGED <<generator, maxAttempts, doc, pc, err, thrown, given, writes, genCalls, calls,
                 validates, budget, assigned, proto, hasCheckedMongoDB, serverStatus, frames,
                 entered, completion>>
  /\ UNCHANGED <<regVars, genVars>>

NextChurn ==
  \/ \E i \in Docs :
       \/ Save(i)
       \/ CheckMongoDB(i)
       \/ DelegateSave(i)
       \/ StoreWrite(i)
       \/ Catch(i)
  \/ OtherWrite
  \/ OtherRemove

\* a fresh document is saved once while other writers insert and remove
\* records
SpecChurn == InitLive /\ [][NextChurn]_vars

\* servers and connections: no db handle, a status which is null, a status
\* without version or with a version which is no string, versions around
\* the least supported one
ServerStatuses ==
  { [db |-> FALSE, status |-> "object", version |-> "string", semver |-> <<7, 0, 12>>],
    [db |-> TRUE, status |-> "null", version |-> "missing", semver |-> <<0, 0, 0>>],
    [db |-> TRUE, status |-> "object", version |-> "missing", semver |-> <<0, 0, 0>>],
    [db |-> TRUE, status |-> "object", version |-> "number", semver |-> <<0, 0, 0>>] }
  \cup [db : {TRUE}, status : {"object"}, version : {"string"},
        semver : {<<3, 6, 23>>, <<4, 0, 28>>, <<4, 1, 9>>, <<4, 2, 0>>}]

\* two fresh documents are saved, the first up to MaxCalls times and the
\* second once, on a model wrapped once and connected to one of the servers
InitGate ==
  /\ InitOptions
  /\ store \in SUBSET { r \in SeedRecords : r.id = 101 }
  /\ doc = [i \in Docs |-> [scope |-> "memphis", email |-> DocEmail[i], slug |-> NULL,
                             attached |-> FALSE, slugAttempts |-> <<>>]]
  /\ given = [i \in Docs |-> NULL]
  /\ assigned = given
  /\ serverStatus \in ServerStatuses
  /\ pc = [i \in Docs |-> IF i <= 2 THEN "idle" ELSE "absent"]
  /\ budget = [i \in Docs |-> [calls |-> IF i = 1 THEN MaxCalls ELSE 1, validates |-> 0, callbacks |-> {FALSE}]]

NextGate ==
  \E i \in Docs :
    \/ Save(i)
    \/ CheckMongoDB(i)
    \/ DelegateSave(i)
    \/ StoreWrite(i)
    \/ Catch(i)

SpecGate == InitGate /\ [][NextGate]_vars

\* the attempt indices a save call can reach when every value of the
\* generator is attempted as often as the repeat check allows
CycleIdx == 0..(RepeatLimit * Cardinality(SlugVals))

\* a fresh document is saved once, without maxAttempts, into a collection in
\* which the first or all of the generator's values are taken
InitCycle ==
  /\ InitRegistered
  /\ InitNoGenerator
  /\ generator = [n \in CycleIdx |-> UNDEF]
  /\ maxAttempts = NoLimit
  /\ store \in { { r \in SeedRecords : r.id = 101 },
                 { r \in SeedRecords : r.scope = "memphis" /\ r.slug \in SlugVals } }
  /\ doc = [i \in Docs |-> [scope |-> "memphis", email |-> "b@x", slug |-> NULL,
                             attached |-> FALSE, slugAttempts |-> <<>>]]
  /\ given = [i \in Docs |-> NULL]
  /\ assigned = given
  /\ pc = [i \in Docs |-> IF i = 1 THEN "idle" ELSE "absent"]
  /\ err = [i \in Docs |-> NoError]
  /\ thrown = [i \in Docs |-> NoError]
  /\ writes = [i \in Docs |-> <<>>]
  /\ genCalls = [i \in Docs |-> 0]
  /\ calls = [i \in Docs |-> 0]
  /\ validates = [i \in Docs |-> 0]
  /\ budget = [i \in Docs |-> [calls |-> 1, validates |-> 0, callbacks |-> {FALSE}]]
  /\ proto = wrap(UnwrappedProto)
  /\ hasCheckedMongoDB = {}
  /\ serverStatus = TestServerStatus
  /\ frames = [i \in Docs |-> <<>>]
  /\ entered = [i \in Docs |-> 0]
  /\ completion = [i \in Docs |-> [callback |-> FALSE, returned |-> "nothing", invokes |-> FALSE, notified |-> <<>>]]

NextCycle ==
  \E i \in Docs :
    \/ Save(i)
    \/ CheckMongoDB(i)
    \/ DelegateSave(i)
    \/ StoreWrite(i)
    \/ Catch(i)

\* the event loop runs every continuation which is ready, and the store
\* answers every write
SpecCycle == InitCycle /\ [][NextCycle]_vars /\ \A i \in Docs : WF_vars(CallStep(i))

NextRewrap ==
  \/ \E i \in Docs :
       \/ Save(i)
       \/ CheckMongoDB(i)
       \/ DelegateSave(i)
       \/ StoreWrite(i)
       \/ Catch(i)
  \/ WrapModel

\* a fresh document is saved once on a model which the application wraps
\* again, before the save or while it is under way
SpecRewrap == InitLive /\ [][NextRewrap]_vars

\* one document is saved and validated, and the application assigns to its
\* slug path between the calls; the collection holds at most the first
\* seed record
InitAssign ==
  /\ InitOptions
  /\ store \in SUBSET { r \in SeedRecords : r.id = 101 }
  /\ doc \in { f \in [Docs -> NewDocs] :
                 /\ f[1].email = "b@x"
                 /\ f[1].scope = "memphis"
                 /\ \A i \in Docs \ {1} : f[i] = f[1] }
  /\ given = [i \in Docs |-> doc[i].slug]
  /\ assigned = given
  /\ serverStatus = TestServerStatus
  /\ pc = [i \in Docs |-> IF i = 1 THEN "idle" ELSE "absent"]
  /\ budget = [i \in Docs |-> [calls |-> MaxCalls, validates |-> MaxValidates, callbacks |-> {FALSE}]]

NextAssign ==
  \/ Next
  \/ \E i \in Docs : SetSlug(i)

SpecAssign == InitAssign /\ [][NextAssign]_vars

\* one document is saved on the wrapped model, each time with a function as
\* argument or without
InitWrap ==
  /\ InitOptions
  /\ store \in SUBSET { r \in SeedRecords : r.id = 101 }
  /\ doc \in { f \in [Docs -> NewDocs] :
                 /\ f[1].email = "b@x"
                 /\ f[1].scope = "memphis"
                 /\ \A i \in Docs \ {1} : f[i] = f[1] }
  /\ given = [i \in Docs |-> doc[i].slug]
  /\ assigned = given
  /\ serverStatus = TestServerStatus
  /\ pc = [i \in Docs |-> IF i = 1 THEN "idle" ELSE "absent"]
  /\ budget = [i \in Docs |-> [calls |-> MaxCalls, validates |-> MaxValidates, callbacks |-> BOOLEAN]]

SpecWrap == InitWrap /\ [][Next]_vars

\* no document has been constructed and no model wrapped yet
InitNoSaves ==
  /\ generator = [n \in AttemptIdx |-> UNDEF]
  /\ maxAttempts = NoLimit
  /\ store = {}
  /\ doc = [i \in Docs |-> [scope |-> "memphis", email |-> DocEmail[1], slug |-> NULL,
                             attached |-> FALSE, slugAttempts |-> <<>>]]
  /\ given = [i \in Docs |-> NULL]
  /\ assigned = given
  /\ pc = [i \in Docs |-> "absent"]
  /\ err = [i \in Docs |-> NoError]
  /\ thrown = [i \in Docs |-> NoError]
  /\ writes = [i \in Docs |-> <<>>]
  /\ genCalls = [i \in Docs |-> 0]
  /\ calls = [i \in Docs |-> 0]
  /\ validates = [i \in Docs |-> 0]
  /\ budget = [i \in Docs |-> [calls |-> 0, validates |-> 0, callbacks |-> {FALSE}]]
  /\ proto = UnwrappedProto
  /\ hasCheckedMongoDB = {}
  /\ serverStatus = TestServerStatus
  /\ frames = [i \in Docs |-> <<>>]
  /\ entered = [i \in Docs |-> 0]
  /\ completion = [i \in Docs |-> [callback |-> FALSE, returned |-> "nothing", invokes |-> FALSE, notified |-> <<>>]]

\* raw configurations are validated
InitValidate ==
  /\ InitNoSaves
  /\ InitNoGenerator
  /\ schema = TestSchema
  /\ opts = TestOptions
  /\ raised = NoError
  /\ config = NoConfig

SpecValidate == InitValidate /\ [][ValidateOptions]_vars

\* a schema without plugin: it declares the path `name`, the path `slug` or
\* not, and up to two indexes of different names
InitPlugin ==
  /\ InitNoSaves
  /\ InitNoGenerator
  /\ schema \in [paths : {{"name"}, {"name", "slug"}},
                  indexes : { ixs \in SUBSET SchemaIndexes :
                                \A a, b \in ixs : a # b => a.name # b.name },
                  plugins : {0},
                  first : {NoOptions},
                  hooks : {0},
                  maxlength : {[p \in PathNames |-> NotDeclared]},
                  hookMaxlength : {JsUndefined}]
  /\ opts = NoOptions
  /\ raised = NoError
  /\ config = NoConfig

SpecPlugin == InitPlugin /\ [][Attach]_vars

\* the plugin is attached to a schema and the model is wrapped, in any order
SpecModel == InitPlugin /\ [][Attach \/ WrapModel]_vars

\* the hook which the plugin installed runs on a document: the field-list
\* generator is called with the maxlength selected at registration
PreValidateGenerate ==
  /\ schema.hooks >= 1
  /\ \E attempt \in 0..MaxGenAttempt :
       slugOut' = [called |-> TRUE, attempt |-> attempt, maxLength |-> schema.hookMaxlength.num,
                   slug |-> createDefaultGenerator(TestPaths, fields, attempt, schema.hookMaxlength.num)]
  /\ UNCHANGED <<fields, saveVars, regVars>>

\* a schema whose paths declare a maxlength or not, and valid options with
\* maxLength or without
InitMaxlength ==
  /\ InitNoSaves
  /\ schema \in [paths : {{"name", "slug"}},
                  indexes : {TestSchema.indexes},
                  plugins : {0},
                  first : {NoOptions},
                  hooks : {0},
                  maxlength : [PathNames -> Declarations],
                  hookMaxlength : {JsUndefined}]
  /\ opts = NoOptions
  /\ raised = NoError
  /\ config \in [present : {TRUE}, index : {JsString("slug_ix")}, generateFrom : {JsArray},
                  maxLength : {JsUndefined} \cup { JsNumber(n) : n \in 1..MaxLength },
                  maxAttempts : {JsUndefined}]
  /\ fields \in [firstname : { [present |-> TRUE, chars |-> w] : w \in {<<"2">>, <<"2", "2">>} },
                  lastname : {[present |-> FALSE, chars |-> <<>>]}]
  /\ slugOut = NoSlugOut

SpecMaxlength == InitMaxlength /\ [][Attach \/ PreValidateGenerate]_vars

\* a document with the two name fields, on which the field-list generator is
\* called
InitGen ==
  /\ InitNoSaves
  /\ InitRegistered
  /\ fields \in [{"firstname", "lastname"} -> FieldValues]
  /\ slugOut = NoSlugOut

SpecGen == InitGen /\ [][Generate]_vars

-----------------------------------------------------------------------------
(* Vocabulary of the properties *)

\* the attempt indices for which the generator has been evaluated
Tabulated == { n \in AttemptIdx : generator[n] # UNDEF }

\* the generator's values at the evaluated indices up to k are pairwise distinct
DistinctUpTo(k) ==
  \A a, b \in (0..k) \cap Tabulated : a # b => generator[a] # generator[b]

\* the slugs which other records hold in the index scope of document i
Taken(i) == { r.slug : r \in { q \in store : q.id # i /\ q.scope = doc[i].scope } }

\* no other record holds the email address of document i
EmailFree(i) == \A r \in store : r.id # i => r.email # doc[i].email

\* the first save call on document i has terminated
FirstCallDone(i) == calls[i] = 1 /\ pc[i] \in Terminated

-----------------------------------------------------------------------------
(* C1 *)

\* the scenario of C1 with k taken slugs: a document constructed without slug,
\* saved alone; exactly g(0)..g(k-1) are taken in its scope, g(0)..g(k) are
\* pairwise distinct, k is below maxAttempts, and the store fails for no
\* other reason
SequentialScenario(k) ==
  /\ given[1] = NULL
  /\ FirstCallDone(1)
  /\ EmailFree(1)
  /\ err[1] \notin UnrelatedErrors
  /\ Cardinality(Taken(1)) = k
  /\ k <= MaxAttemptIdx
  /\ maxAttempts = NoLimit \/ k < maxAttempts
  /\ DistinctUpTo(k)
  /\ \A n \in (0..(k - 1)) \cap Tabulated : generator[n] \in Taken(1)

\* C1: in the sequential scenario the save call issues exactly k+1 writes,
\* g(0), g(1), ..., g(k) in this order, and succeeds with the slug g(k).
ThmC1 ==
  \A k \in AttemptIdx :
    SequentialScenario(k) =>
      /\ pc[1] = "succeeded"
      /\ Len(writes[1]) = k + 1
      /\ \A n \in 0..k : writes[1][n + 1] = generator[n]
      /\ doc[1].slug = generator[k]
      /\ Record(1) \in store

WitC1 ==
  /\ SequentialScenario(2)
  /\ pc[1] = "succeeded"
  /\ Len(writes[1]) = 3

-----------------------------------------------------------------------------
(* C2 *)

-----------------------------------------------------------------------------
(* C3 *)

\* the scenario of C3: all documents were constructed without slug in one
\* scope, N = NumDocs does not exceed maxAttempts, the generator's values are
\* pairwise distinct, all save calls have terminated and the store failed
\* for no reason other than a conflict
SimultaneousScenario ==
  /\ \A i \in Docs : given[i] = NULL /\ doc[i].scope = doc[1].scope
  /\ \A i \in Docs : FirstCallDone(i) /\ err[i] \notin UnrelatedErrors
  /\ maxAttempts = NoLimit \/ NumDocs <= maxAttempts
  /\ DistinctUpTo(NumDocs - 1)

\* C3: N documents saved concurrently into an empty scope all succeed, and
\* the stored slugs are exactly g(0), ..., g(N-1), under every interleaving.
ThmC3 ==
  SimultaneousScenario =>
    /\ \A i \in Docs : pc[i] = "succeeded" /\ Record(i) \in store
    /\ { r.slug : r \in store } = { generator[n] : n \in 0..(NumDocs - 1) }

WitC3 ==
  /\ SimultaneousScenario
  /\ \A i \in Docs : pc[i] = "succeeded"
  /\ Cardinality({ r.slug : r \in store }) = NumDocs
  /\ \E i \in Docs : Len(doc[i].slugAttempts) = NumDocs - 1

-----------------------------------------------------------------------------
(* C4 *)

\* a duplicate key error of the store on an index other than the configured one
ForeignConflict(e) == \E ix \in IndexNames \ {IndexName} : e = DupKeyError(ix)

\* C4: when a write fails with a duplicate key error on another index, the
\* catch block ends the call as failed with the store's error unchanged
\* (code 11000, no SluggerError), appends nothing to the attempt history, and
\* the failed call issues no further write.
ThmC4 ==
  [][\A i \in Docs :
       /\ (pc[i] = "caught" /\ ForeignConflict(err[i]) /\ pc'[i] # "caught") =>
            /\ pc'[i] = "failed"
            /\ thrown'[i] = err[i]
            /\ thrown'[i].code = DupKeyCode
            /\ thrown'[i].name # "SluggerError"
            /\ doc'[i] = doc[i]
            /\ writes'[i] = writes[i]
       /\ (pc[i] = "failed" /\ ForeignConflict(thrown[i]) /\ calls'[i] = calls[i]) =>
            /\ pc'[i] = "failed"
            /\ thrown'[i] = thrown[i]
            /\ writes'[i] = writes[i]
            /\ doc'[i].slugAttempts = doc[i].slugAttempts
            /\ store' = store]_vars

\* a call with an attached tracker that failed on the email index at its second write
WitC4 ==
  /\ pc[1] = "failed"
  /\ thrown[1] = DupKeyError(EmailIndex)
  /\ doc[1].attached
  /\ Len(writes[1]) = 2
  /\ Len(doc[1].slugAttempts) = 1

-----------------------------------------------------------------------------
(* C5 *)

\* C5: for a document constructed with a non-null slug the generator is never
\* invoked, no tracker is attached, the slug stays as supplied, a save call
\* issues exactly one write (of that value) and never gives up or retries;
\* if the value collides on the configured index the store's conflict error
\* is what the caller receives.
ThmC5 ==
  \A i \in Docs :
    given[i] # NULL =>
      /\ genCalls[i] = 0
      /\ ~doc[i].attached
      /\ doc[i].slugAttempts = <<>>
      /\ doc[i].slug = given[i]
      /\ Len(writes[i]) <= 1
      /\ \A n \in 1..Len(writes[i]) : writes[i][n] = given[i]
      /\ pc[i] \in Terminated => Len(writes[i]) = 1
      /\ pc[i] # "givingUp"
      /\ pc[i] = "failed" => thrown[i] = err[i]
      /\ pc[i] \in Terminated /\ err[i] = DupKeyError(IndexName) =>
           pc[i] = "failed" /\ thrown[i] = DupKeyError(IndexName)

\* an explicit slug which collided on the configured index
WitC5 ==
  /\ given[1] = "john"
  /\ pc[1] = "failed"
  /\ thrown[1] = DupKeyError(IndexName)
  /\ Len(writes[1]) = 1
  /\ validates[1] = 1

-----------------------------------------------------------------------------
(* C6 *)

\* C6: once a write has failed with an error which is no duplicate key
\* conflict on the configured index, the call is not retried: it only goes
\* on to fail, and the caller receives the identical error.
ThmC6 ==
  \A i \in Docs :
    (err[i] # NoError /\ err[i] # DupKeyError(IndexName)) =>
      /\ pc[i] \in {"caught", "failed"}
      /\ pc[i] = "failed" => thrown[i] = err[i]

\* a call with an attached tracker whose second write timed out in the store
WitC6 ==
  /\ pc[1] = "failed"
  /\ thrown[1] \in UnrelatedErrors
  /\ thrown[1].name = "MongoServerError"
  /\ doc[1].attached
  /\ Len(writes[1]) = 2

-----------------------------------------------------------------------------
(* C7 *)

\* the last write of the call of document i, and with it every write of the
\* call, was rejected with a conflict on the configured index
AllWritesConflicted(i) == pc[i] # "succeeded" /\ err[i] = DupKeyError(IndexName)

\* exactly the first m-1 candidates are taken in the scope of document i: the
\* evaluated ones among g(0)..g(m-2) are taken and g(m-1) is free (or, not
\* evaluated yet, can be)
AllButLastTaken(i, m) ==
  /\ EmailFree(i)
  /\ err[i] \notin UnrelatedErrors
  /\ \A n \in (0..(m - 2)) \cap Tabulated : generator[n] \in Taken(i)
  /\ IF (m - 1) \in Tabulated THEN generator[m - 1] \notin Taken(i)
                              ELSE SlugVals \ Taken(i) # {}

\* the boundary behaviour at maxAttempts = m of the first save call of a
\* document constructed without slug
MaxAttemptsBoundary(i, m) ==
  /\ AllWritesConflicted(i) =>
       /\ pc[i] = "givingUp"
       /\ thrown[i] = ReachedAttemptsError(m)
       /\ thrown[i].message[2] = ToString(m)
       /\ Len(writes[i]) = m
  /\ AllButLastTaken(i, m) =>
       /\ pc[i] = "succeeded"
       /\ Len(writes[i]) = m
       /\ doc[i].slug = generator[m - 1]

\* no candidate value occurs more than three times among g(0)..g(m-1)
RepeatsWithinLimit(m) ==
  \A v \in SlugVals :
    Cardinality({ n \in (0..(m - 1)) \cap Tabulated : generator[n] = v }) <= RepeatLimit

\* C7 as stated: with maxAttempts = m a save call whose writes all conflict on
\* the configured index raises the exhausted-attempts error after exactly m
\* writes, the error naming m; with only m-1 candidates taken it succeeds on
\* the m-th write.
CexC7 ==
  \A i \in Docs :
    (given[i] = NULL /\ FirstCallDone(i) /\ maxAttempts # NoLimit) =>
      MaxAttemptsBoundary(i, maxAttempts)

\* C7 as amended: the same, for generators which return no candidate value
\* more than three times among g(0)..g(m-1).
ThmC7 ==
  \A i \in Docs :
    (given[i] = NULL /\ FirstCallDone(i) /\ maxAttempts # NoLimit
       /\ RepeatsWithinLimit(maxAttempts)) =>
      MaxAttemptsBoundary(i, maxAttempts)

\* three conflicting writes with maxAttempts = 3
WitC7 ==
  /\ given[1] = NULL
  /\ FirstCallDone(1)
  /\ maxAttempts = 3
  /\ RepeatsWithinLimit(3)
  /\ AllWritesConflicted(1)
  /\ thrown[1] = ReachedAttemptsError(3)
  /\ Len(writes[1]) = 3

-----------------------------------------------------------------------------
(* C8 *)

\* the catch block handles a retryable conflict of document i: a duplicate
\* key error on the configured index with a tracker attached
RetryableConflictHandled(i) ==
  /\ pc[i] = "caught"
  /\ pc'[i] # "caught"
  /\ doc[i].attached
  /\ err[i] = DupKeyError(IndexName)

\* the catch block gives up because the attempted slug is in the history
\* three or more times already
GivesUpOnRepeat(i) ==
  /\ pc'[i] = "givingUp"
  /\ thrown'[i] = SluggerError(<<"Already attempted slug", doc[i].slug,
                                 ToString(attemptCount(doc[i].slugAttempts, doc[i].slug)),
                                 "times before. Giving up.">>)
  /\ doc'[i] = doc[i]

\* C8 as stated: on a retryable conflict the call gives up if the attempted
\* slug appears 3 or more times in slugAttempts; otherwise the slug is
\* appended and the cycle continues.
CexC8 ==
  [][\A i \in Docs :
       RetryableConflictHandled(i) =>
         IF attemptCount(doc[i].slugAttempts, doc[i].slug) >= 3
           THEN GivesUpOnRepeat(i)
           ELSE /\ doc'[i].slugAttempts = Append(doc[i].slugAttempts, doc[i].slug)
                /\ pc'[i] = "attempting"]_vars

\* C8 as amended: ... otherwise the slug is appended, and the cycle continues
\* unless maxAttempts is configured and the history has reached it, in which
\* case the call gives up with the exhausted-attempts error.
ThmC8 ==
  [][\A i \in Docs :
       RetryableConflictHandled(i) =>
         IF attemptCount(doc[i].slugAttempts, doc[i].slug) >= 3
           THEN GivesUpOnRepeat(i)
           ELSE /\ doc'[i].slugAttempts = Append(doc[i].slugAttempts, doc[i].slug)
                /\ IF maxAttempts # NoLimit /\ Len(doc'[i].slugAttempts) >= maxAttempts
                     THEN /\ pc'[i] = "givingUp"
                          /\ thrown'[i] = ReachedAttemptsError(Len(doc'[i].slugAttempts))
                     ELSE /\ pc'[i] = "attempting"
                          /\ thrown'[i] = NoError]_vars

\* the fourth conflicting write of the same slug
WitC8 ==
  /\ pc[1] = "givingUp"
  /\ attemptCount(doc[1].slugAttempts, doc[1].slug) = 3
  /\ thrown[1].message = <<"Already attempted slug", doc[1].slug, "3", "times before. Giving up.">>

-----------------------------------------------------------------------------
(* C9 *)

\* the writes n..n+k-1 of the current call of document i submit the same slug
SameSlugRun(i, n, k) ==
  /\ n + k - 1 <= Len(writes[i])
  /\ \A j \in n..(n + k - 1) : writes[i][j] = writes[i][n]

\* C9 as stated: after three consecutive writes of the same candidate, each
\* of which conflicts, the call has given up: no further write follows.
CexC9 ==
  \A i \in Docs : \A n \in 1..Len(writes[i]) :
    SameSlugRun(i, n, 3) => Len(writes[i]) = n + 2

\* C9 as amended: the call gives up no later than the fourth of those
\* conflicts, by the repeat check which then finds the value three times in
\* the history: a fourth consecutive write of the same candidate is the last
\* write of the call, and if it conflicts the call gives up.
ThmC9 ==
  \A i \in Docs : \A n \in 1..Len(writes[i]) :
    SameSlugRun(i, n, 4) =>
      /\ Len(writes[i]) = n + 3
      /\ pc[i] # "attempting"
      /\ (pc[i] \in {"givingUp", "failed"} /\ err[i] = DupKeyError(IndexName)) =>
           /\ pc[i] = "givingUp"
           /\ thrown[i] = AlreadyAttemptedError(writes[i][n], RepeatLimit)

\* four consecutive conflicting writes of one candidate
WitC9 ==
  /\ SameSlugRun(1, 1, 4)
  /\ pc[1] = "givingUp"
  /\ err[1] = DupKeyError(IndexName)
  /\ doc[1].slugAttempts = <<writes[1][1], writes[1][1], writes[1][1]>>

-----------------------------------------------------------------------------
(* C10 *)

\* the step invokes the hook on document i
HookFires(i) ==
  \/ pc[i] = "attempting" /\ pc'[i] = "writing"
  \/ validates'[i] # validates[i]

\* C10: on each hook invocation (1) a document without tracker and without
\* slug gets a tracker with empty history; (2) if a tracker is attached, the
\* slug is set to the generator's value for the length of the history; (3) a
\* document without tracker and with a non-null slug (the empty string
\* included) is left unchanged and the generator is not called.
ThmC10 ==
  [][\A i \in Docs :
       HookFires(i) =>
         /\ (~doc[i].attached /\ doc[i].slug = NULL) =>
              doc'[i].attached /\ doc'[i].slugAttempts = <<>>
         /\ doc[i].attached =>
              doc'[i].attached /\ doc'[i].slugAttempts = doc[i].slugAttempts
         /\ doc'[i].attached =>
              /\ doc'[i].slug = generator'[Len(doc'[i].slugAttempts)]
              /\ doc'[i].slug \in SlugVals
              /\ generator[Len(doc'[i].slugAttempts)] \in {UNDEF, doc'[i].slug}
              /\ genCalls'[i] = genCalls[i] + 1
         /\ (~doc[i].attached /\ doc[i].slug # NULL) =>
              /\ doc'[i] = doc[i]
              /\ genCalls'[i] = genCalls[i]
              /\ generator' = generator
         /\ doc'[i].scope = doc[i].scope /\ doc'[i].email = doc[i].email]_vars

\* the hook has set the slug of a document whose tracker was carried over
\* from two conflicts
WitC10 ==
  /\ pc[1] = "writing"
  /\ doc[1].attached
  /\ Len(doc[1].slugAttempts) = 2
  /\ doc[1].slug = generator[2]
  /\ genCalls[1] >= 3

-----------------------------------------------------------------------------
(* C11 *)

\* C11: a non-null slug value which the application supplied (by constructor
\* or by assignment) and which is the value of the slug path when the hook is
\* invoked is still the value of the slug path after that invocation.
CexC11 ==
  [][\A i \in Docs :
       (HookFires(i) /\ assigned[i] # NULL /\ doc[i].slug = assigned[i]) =>
         doc'[i].slug = assigned[i]]_vars

-----------------------------------------------------------------------------
(* C12 *)

\* the step is the first delegate write of a save call of document i
FirstWriteOfCall(i) == pc[i] = "attempting" /\ pc'[i] = "writing" /\ writes[i] = <<>>

\* C12: every save call on a document instance, a later one after an earlier
\* call has terminated included, starts at attempt index 0 with an empty
\* attempt history, and no stored record holds a tracker.
CexC12 ==
  [][/\ \A i \in Docs :
          FirstWriteOfCall(i) =>
            /\ doc[i].slugAttempts = <<>>
            /\ doc'[i].attached => doc'[i].slug = generator'[0]
     /\ \A r \in store' : DOMAIN r = {"id", "scope", "slug", "email"}]_vars

-----------------------------------------------------------------------------
(* C13 *)

\* a save call of document i is in progress
InCall(i) == pc[i] \in {"checking", "attempting", "writing", "caught"}

\* C13: on a model wrapped once the delegate slot holds the original save
\* routine; a save call enters the wrapper exactly once, the nesting depth is
\* 1 as long as the call runs, and every step of the retry loop which calls
\* the save function, the first write and every retry, runs the original
\* routine (the hook and the write) without entering a wrapper.
ThmC13 ==
  [][/\ proto.delegate = OriginalSave
     /\ saveFunction(proto) = OriginalSave
     /\ \A i \in Docs :
          /\ InCall(i)' => frames'[i] = <<proto.save>> /\ entered'[i] = 1
          /\ (pc'[i] \in Terminated) => frames'[i] = <<>> /\ entered'[i] = 1
          /\ (pc[i] = "attempting" /\ pc'[i] # "attempting") =>
               /\ pc'[i] = "writing"
               /\ Len(writes'[i]) = Len(writes[i]) + 1
               /\ frames'[i] = frames[i]
               /\ entered'[i] = entered[i]]_vars

\* the third write (the second retry) of a call, at nesting depth 1
WitC13 ==
  /\ pc[1] = "writing"
  /\ Len(writes[1]) = 3
  /\ Len(doc[1].slugAttempts) = 2
  /\ frames[1] = <<Wrapper(1)>>
  /\ entered[1] = 1

-----------------------------------------------------------------------------
(* C14 *)

\* C14: every save call, the first one on the model included, enters the
\* wrapper and with it the retry loop: a conflict on the configured index is
\* passed to the caller only for a document without tracker; and when
\* exactly g(0) is taken in the scope of a fresh document (the record was
\* inserted without the library), its first save call succeeds on the
\* second write with g(1).
ThmC14 ==
  \A i \in Docs :
    /\ calls[i] >= 1 => entered[i] = 1
    /\ (pc[i] = "failed" /\ thrown[i] = DupKeyError(IndexName)) => ~doc[i].attached
    /\ (SequentialScenario(1) /\ i = 1) =>
         /\ pc[i] = "succeeded"
         /\ thrown[i] = NoError
         /\ writes[i] = <<generator[0], generator[1]>>
         /\ doc[i].slug = generator[1]
         /\ Record(i) \in store
         /\ hasCheckedMongoDB = {proto.save.id}

\* the first save call on the model, against a collection holding g(0)
WitC14 ==
  /\ SequentialScenario(1)
  /\ calls[1] = 1
  /\ validates[1] = 0
  /\ pc[1] = "succeeded"
  /\ Len(writes[1]) = 2
  /\ store = {[id |-> 101, scope |-> "memphis", slug |-> generator[0], email |-> "s1@x"], Record(1)}

-----------------------------------------------------------------------------
(* C15 *)

\* the step is a call of schema.plugin with the slugger
AttachStep == schema'.plugins = schema.plugins + 1

\* options o are valid for schema sch: they are given, the slug path is
\* declared, and the named index exists, is unique and contains the slug path
ValidFor(sch, o) ==
  /\ o.present
  /\ o.slugPath \in sch.paths
  /\ \E ix \in sch.indexes : ix.name = o.index /\ ix.unique /\ o.slugPath \in ix.paths

AddedMoreThanOnce == PlainError(<<"slugger was added more than once.">>)

\* C15 as stated: an attachment which is valid succeeds if none has
\* succeeded before; every attachment after the one which succeeded raises
\* 'slugger was added more than once.'; at most one hook is installed.
CexC15 ==
  [][AttachStep =>
       /\ (schema.hooks = 0 /\ ValidFor(schema, opts')) =>
            raised' = NoError /\ schema'.hooks = 1
       /\ schema.hooks >= 1 =>
            raised' = AddedMoreThanOnce /\ schema'.hooks = schema.hooks
       /\ schema'.hooks <= 1]_vars

\* C15 as amended: the first attachment succeeds if it is valid; every later
\* attachment, whether the first one succeeded or not, raises 'slugger was
\* added more than once.', or 'options are missing.' when it passes no
\* options; at most one hook is installed.
ThmC15 ==
  [][AttachStep =>
       /\ (schema.plugins = 0 /\ ValidFor(schema, opts')) =>
            raised' = NoError /\ schema'.hooks = 1
       /\ schema.plugins >= 1 =>
            /\ raised' = IF opts'.present THEN AddedMoreThanOnce
                                          ELSE PlainError(<<"options are missing.">>)
            /\ schema'.hooks = schema.hooks
       /\ schema'.hooks <= 1]_vars

\* a valid attachment raised after an attachment which had succeeded
WitC15 ==
  /\ schema.plugins = 2
  /\ schema.hooks = 1
  /\ ValidFor(schema, opts)
  /\ raised = AddedMoreThanOnce

-----------------------------------------------------------------------------
(* C16 *)

\* a number which is at least one
AtLeastOne(v) == v.type = "number" /\ ~v.nan /\ v.num >= 1

\* C16: validateOptions raises, for the first in this order which applies:
\* configuration missing; index missing; generateFrom missing (a property is
\* missing when it has no truthy value); numeric maxLength < 1; numeric
\* maxAttempts < 1; generateFrom neither string, array nor function.  And
\* every configuration which passes has maxAttempts >= 1 and maxLength >= 1
\* whenever they are numbers.
CexC16 ==
  [][LET c == config' IN
       /\ raised' =
            IF ~c.present THEN PlainError(<<"options are missing.">>)
            ELSE IF falsy(c.index) THEN PlainError(<<"index is missing.">>)
            ELSE IF falsy(c.generateFrom) THEN PlainError(<<"generateFrom is missing.">>)
            ELSE IF c.maxLength.type = "number" /\ ~c.maxLength.nan /\ c.maxLength.num < 1
                   THEN PlainError(<<"maxLength must be at least one.">>)
            ELSE IF c.maxAttempts.type = "number" /\ ~c.maxAttempts.nan /\ c.maxAttempts.num < 1
                   THEN PlainError(<<"maxAttempts must be at least one.">>)
            ELSE IF c.generateFrom.type \notin {"string", "array", "function"}
                   THEN PlainError(<<"generateFrom must be a string, array, or function.">>)
                   ELSE NoError
       /\ raised' = NoError =>
            /\ c.maxAttempts.type = "number" => AtLeastOne(c.maxAttempts)
            /\ c.maxLength.type = "number" => AtLeastOne(c.maxLength)]_vars

-----------------------------------------------------------------------------
(* C17 *)

\* the index of schema sch which options o name
NamedIndex(sch, o) == CHOOSE ix \in sch.indexes : ix.name = o.index

\* C17: an attachment with options, the first on its schema, raises for the
\* first in this order which applies: the slug path is not declared; no index
\* has the configured name; that index is not unique; that index does not
\* contain the slug path.  An attachment which raises installs no hook.
ThmC17 ==
  [][AttachStep =>
       /\ (schema.plugins = 0 /\ opts'.present) =>
            raised' =
              IF opts'.slugPath \notin schema.paths
                THEN PlainError(<<"the slug path", opts'.slugPath, "does not exist in the schema.">>)
              ELSE IF \A ix \in schema.indexes : ix.name # opts'.index
                THEN PlainError(<<"schema contains no index with name", opts'.index>>)
              ELSE IF ~NamedIndex(schema, opts').unique
                THEN PlainError(<<"the index", opts'.index, "is not unique.">>)
              ELSE IF opts'.slugPath \notin NamedIndex(schema, opts').paths
                THEN PlainError(<<"the index", opts'.index, "does not contain the slug path", opts'.slugPath>>)
                ELSE NoError
       /\ raised' # NoError => schema'.hooks = schema.hooks]_vars

\* the slug path is reported although the index does not exist either
WitC17 ==
  /\ schema.plugins = 1
  /\ schema.hooks = 0
  /\ opts.present
  /\ opts.slugPath \notin schema.paths
  /\ \A ix \in schema.indexes : ix.name # opts.index
  /\ raised = PlainError(<<"the slug path", opts.slugPath, "does not exist in the schema.">>)

-----------------------------------------------------------------------------
(* C18 *)

\* the last save call of document i has terminated
CallOver(i) == calls[i] > 0 /\ pc[i] \in Terminated

-----------------------------------------------------------------------------
(* C19 *)

\* the disambiguator of attempt index k
Suffix(k) == IF k > 0 THEN <<"-">> \o Digits(k + 1) ELSE <<>>

\* the returned slug without the disambiguator of the call
ReturnedBody == SubSeq(slugOut.slug, 1, Len(slugOut.slug) - Len(Suffix(slugOut.attempt)))

\* C19: a call of the field-list generator with maxLength >= 1 returns a slug
\* of at most maxLength characters, whose truncated body does not end with
\* the separator and which contains no doubled separator.
CexC19 ==
  (slugOut.called /\ slugOut.maxLength # NoLimit) =>
    /\ Len(slugOut.slug) <= slugOut.maxLength
    /\ ReturnedBody = <<>> \/ ReturnedBody[Len(ReturnedBody)] # "-"
    /\ \A k \in 1..(Len(slugOut.slug) - 1) : ~(slugOut.slug[k] = "-" /\ slugOut.slug[k + 1] = "-")

-----------------------------------------------------------------------------
(* C20 *)

\* the values of the configured fields in declared order, missing ones
\* skipped, joined with the separator and normalized
Body == limaxFixed(join(SelectSeq([k \in 1..Len(TestPaths) |-> fields[TestPaths[k]]],
                                  LAMBDA v : v.present)))

\* C20: the field-list generator returns the body for attempt 0 and the body,
\* the separator and k + 1 for attempt k > 0, the body being the values of
\* the configured fields in declared order, missing ones skipped, joined with
\* the separator and normalized, and cut to a prefix when a maxLength is
\* passed; a call changes neither the document nor any state of the saves.
ThmC20 ==
  /\ [](slugOut.called =>
          IF slugOut.maxLength = NoLimit
            THEN slugOut.slug = Body \o Suffix(slugOut.attempt)
            ELSE \E n \in 0..Len(Body) :
                   slugOut.slug = SubSeq(Body, 1, n) \o Suffix(slugOut.attempt))
  /\ [][slugOut' # slugOut => fields' = fields /\ saveVars' = saveVars]_vars

\* the first field is missing and the tenth attempt is disambiguated by 10
WitC20 ==
  /\ slugOut.called
  /\ ~fields["firstname"].present
  /\ fields["lastname"].chars = <<"Ä", "_">>
  /\ slugOut.attempt = 9
  /\ slugOut.maxLength = NoLimit
  /\ slugOut.slug = <<"a", "e", "-", "1", "0">>

-----------------------------------------------------------------------------
(* C21 *)

\* what the field-list generator returns on the document for attempt index k
\* and maxLength m
Generated(k, m) == createDefaultGenerator(TestPaths, fields, k, m)

-----------------------------------------------------------------------------
(* C22 *)

\* C22: with maxAttempts = m a save call of a fresh document has issued at
\* most m writes at any time, whatever the generator returns and whatever
\* other writers do to the store in the meantime, and the call terminates:
\* it succeeds, gives up or fails.
ThmC22 ==
  /\ [](\A i \in Docs :
          (maxAttempts # NoLimit /\ calls[i] = 1) => Len(writes[i]) <= maxAttempts)
  /\ \A i \in Docs :
       (maxAttempts # NoLimit /\ calls[i] = 1 /\ InCall(i)) ~> (pc[i] \in Terminated)

\* the call gave up at the second write: another writer had taken the
\* second candidate
WitC22 ==
  /\ maxAttempts = 2
  /\ calls[1] = 1
  /\ pc[1] = "givingUp"
  /\ Len(writes[1]) = 2
  /\ thrown[1] = ReachedAttemptsError(2)
  /\ \E r \in store \cap OtherRecords : r.slug = writes[1][2]

-----------------------------------------------------------------------------
(* C23 *)

\* the save of document i, constructed without slug, runs without maxAttempts,
\* with a generator whose values are pairwise distinct, and no write of it is
\* rejected for anything but a conflict on the configured index
OnlySlugConflicts(i) ==
  /\ maxAttempts = NoLimit
  /\ given[i] = NULL
  /\ DistinctUpTo(MaxAttemptIdx)
  /\ err[i] \in {NoError, DupKeyError(IndexName)}

\* C23: with no maxAttempts, a generator with pairwise distinct values and no
\* failure other than conflicts on the configured index, a save call of a
\* fresh document without slug eventually succeeds, other writers inserting
\* finitely many records in the meantime.
ThmC23 ==
  \A i \in Docs : []OnlySlugConflicts(i) => (InCall(i) ~> (pc[i] = "succeeded"))

\* the call succeeded at its third write, another writer having taken the
\* second candidate
WitC23 ==
  /\ OnlySlugConflicts(1)
  /\ pc[1] = "succeeded"
  /\ Len(writes[1]) = 3
  /\ \E r \in store \cap OtherRecords : r.slug = writes[1][2]

-----------------------------------------------------------------------------
(* C24 *)

\* the step belongs neither to a new save call nor to a validate() call of
\* the application on document i
NoNewCall(i) == calls'[i] = calls[i] /\ validates'[i] = validates[i]

\* C24: a save call which has terminated has exactly one outcome: Succeeded,
\* the document being stored with the candidate of the last write as its
\* slug and nothing thrown; GivingUp, a SluggerError thrown; or Failed, the
\* error of the rejected write thrown as it is.  After the outcome the call
\* writes no more and changes neither the tracker nor the slug, whatever the
\* other documents do; a write which succeeded is followed by no retry.
ThmC24 ==
  /\ [](\A i \in Docs :
          CallOver(i) =>
            /\ pc[i] = "succeeded" =>
                 /\ thrown[i] = NoError
                 /\ writes[i] # <<>>
                 /\ doc[i].slug = writes[i][Len(writes[i])]
                 /\ Record(i) \in store
            /\ pc[i] = "givingUp" => thrown[i].name = "SluggerError"
            /\ pc[i] = "failed" => thrown[i] = err[i] /\ thrown[i].name \notin {"none", "SluggerError"})
  /\ [][\A i \in Docs :
          /\ (CallOver(i) /\ NoNewCall(i)) =>
               pc'[i] = pc[i] /\ writes'[i] = writes[i] /\ doc'[i] = doc[i] /\ thrown'[i] = thrown[i]
          /\ (pc[i] = "writing" /\ Record(i) \in store') => pc'[i] = "succeeded"]_vars

\* one document succeeded, the other one, saved at the same time, gave up
WitC24 ==
  /\ CallOver(1)
  /\ CallOver(2)
  /\ pc[1] = "succeeded"
  /\ pc[2] = "givingUp"
  /\ thrown[2].name = "SluggerError"
  /\ Len(writes[2]) >= 1

-----------------------------------------------------------------------------
(* C25 *)

\* the step is a step of a save or validate() call on document i
StepOf(i) == pc'[i] # pc[i] \/ validates'[i] # validates[i]

\* C25: a step of a call on one document instance changes neither the tracker
\* nor the slug, nor anything else, of another instance; and the attempt
\* index at which a save call writes is the number of the call's own writes
\* which were rejected before, also when another instance with the same
\* generator input is saved at the same time.
ThmC25 ==
  [][\A i \in Docs :
       /\ StepOf(i) => \A j \in Docs \ {i} : doc'[j] = doc[j] /\ ~StepOf(j)
       /\ (HookFires(i) /\ pc'[i] = "writing" /\ doc'[i].attached) =>
            /\ Len(doc'[i].slugAttempts) = Len(writes[i])
            /\ doc'[i].slugAttempts = writes[i]
            /\ doc'[i].slug = generator'[Len(writes[i])]]_vars

\* the first document writes its second candidate while the second one, in
\* the same scope, has written its first and has an empty history
WitC25 ==
  /\ doc[1].scope = doc[2].scope
  /\ pc[1] = "writing"
  /\ doc[1].slugAttempts = <<generator[0]>>
  /\ doc[2].attached
  /\ doc[2].slugAttempts = <<>>
  /\ doc[2].slug = generator[0]
  /\ pc[2] = "succeeded"

-----------------------------------------------------------------------------
(* C26 *)

\* document i, constructed without slug, has been saved once, and no write of
\* it failed for a reason other than a conflict
FreshSaved(i) == given[i] = NULL /\ FirstCallDone(i) /\ err[i] \notin UnrelatedErrors

\* the documents which share the index scope of document i
ScopeOf(i) == { k \in Docs : doc[k].scope = doc[i].scope }

\* documents i and j got g(0) and g(1): one with a single write, the other
\* with a retry
GotFirstTwo(i, j) ==
  /\ pc[i] = "succeeded" /\ pc[j] = "succeeded"
  /\ {doc[i].slug, doc[j].slug} = {generator[0], generator[1]}
  /\ {Len(writes[i]), Len(writes[j])} = {1, 2}

\* a document which is alone in its scope is saved with g(0) by one write
AloneInScope(i) ==
  (FreshSaved(i) /\ ScopeOf(i) = {i}) =>
    /\ pc[i] = "succeeded"
    /\ writes[i] = <<generator[0]>>
    /\ doc[i].slug = generator[0]
    /\ doc[i].slugAttempts = <<>>

\* C26 as stated: a fresh document whose scope holds no other document is
\* saved with the attempt-0 slug by a single write, whatever documents with
\* the same generator input other scopes hold; two fresh documents in one
\* scope get g(0) and g(1), these being different.
CexC26 ==
  \A i, j \in Docs :
    /\ AloneInScope(i)
    /\ (i # j /\ FreshSaved(i) /\ FreshSaved(j) /\ ScopeOf(i) = {i, j}
          /\ generator[0] # generator[1]) =>
         GotFirstTwo(i, j)

\* C26 as amended: ... two fresh documents in one scope get g(0) and g(1),
\* these being different, if maxAttempts is absent or at least 2.
ThmC26 ==
  \A i, j \in Docs :
    /\ AloneInScope(i)
    /\ (i # j /\ FreshSaved(i) /\ FreshSaved(j) /\ ScopeOf(i) = {i, j}
          /\ generator[0] # generator[1]
          /\ (maxAttempts = NoLimit \/ maxAttempts >= 2)) =>
         GotFirstTwo(i, j)

\* two documents in different scopes, both stored with g(0)
WitC26 ==
  /\ FreshSaved(1) /\ FreshSaved(2)
  /\ doc[1].scope # doc[2].scope
  /\ doc[1].slug = generator[0] /\ doc[2].slug = generator[0]
  /\ Record(1) \in store /\ Record(2) \in store
  /\ Len(writes[1]) = 1 /\ Len(writes[2]) = 1

-----------------------------------------------------------------------------
(* C27 *)

\* the message holds the pattern 'index: <name> dup key:' with a name
HasPattern(msg) ==
  \E a, b \in 1..Len(msg) : msg[a] = "index:" /\ msg[b] = "dup key:" /\ b >= a + 2

\* the catch block handles the error of a rejected write of document i
Handled(i) == pc[i] = "caught" /\ pc'[i] # "caught"

\* C27: the catch block enters the retry branch (it retries, or gives up with
\* a SluggerError) only if a tracker is attached, the error has one of the
\* names MongoError, BulkWriteError, MongoServerError, its code is 11000, its
\* message is not empty and the index name extracted from it is the
\* configured index; an error whose message lacks the pattern yields no
\* index name and is passed on as it is.
ThmC27 ==
  [][\A i \in Docs :
       Handled(i) =>
         /\ pc'[i] \in {"attempting", "givingUp"} =>
              /\ doc[i].attached
              /\ err[i].name \in {"MongoError", "BulkWriteError", "MongoServerError"}
              /\ err[i].code = 11000
              /\ err[i].message # <<>>
              /\ extractIndexNameFromError(err[i].message) = <<IndexName>>
         /\ ~HasPattern(err[i].message) =>
              /\ extractIndexNameFromError(err[i].message) = <<>>
              /\ pc'[i] = "failed"
              /\ thrown'[i] = err[i]
              /\ doc'[i] = doc[i]]_vars

\* a duplicate key error of the store whose message lacks 'index:' has been
\* passed on although a tracker is attached
WitC27 ==
  /\ pc[1] = "failed"
  /\ doc[1].attached
  /\ thrown[1] = err[1]
  /\ err[1].name = "MongoServerError"
  /\ err[1].code = DupKeyCode
  /\ err[1].message = <<"E11000 duplicate key error collection: test.slugmodels", "dup key:", "{ key }">>

-----------------------------------------------------------------------------
(* C28 *)

\* the step is a call of wrap(model)
WrapStep == schema' = schema

NotAdded == PlainError(<<"slugger was not added to this model's schema.">>)

\* C28: wrap on a model whose schema has no slugger plugin raises 'slugger
\* was not added to this model's schema.' and leaves the prototype as it is:
\* the delegate slot stays empty and the save slot keeps the original routine.
ThmC28 ==
  [][(WrapStep /\ schema.plugins = 0) =>
       /\ raised' = NotAdded
       /\ proto' = proto
       /\ proto' = UnwrappedProto]_vars

\* wrap has been refused on a schema without plugin
WitC28 ==
  /\ schema.plugins = 0
  /\ raised = NotAdded
  /\ proto.delegate = NoRoutine
  /\ proto.save = OriginalSave

-----------------------------------------------------------------------------
(* C29 *)

\* the generator has returned the same value at every attempt so far
ConstantGenerator == \A n \in Tabulated : generator[n] = generator[0]

\* C29: the first save call of a document constructed without slug, with a
\* generator returning one value and every write conflicting on the
\* configured index, ends with the exhausted-attempts error after m writes if
\* maxAttempts = m <= 3, and with the duplicate-generation error at the 4th
\* write if maxAttempts >= 4 or is absent; the repeat check gives up before
\* the attempted slug is appended, the maxAttempts check after it.
ThmC29 ==
  \A i \in Docs :
    (given[i] = NULL /\ FirstCallDone(i) /\ AllWritesConflicted(i) /\ ConstantGenerator) =>
      /\ pc[i] = "givingUp"
      /\ IF maxAttempts # NoLimit /\ maxAttempts <= 3
           THEN /\ thrown[i] = ReachedAttemptsError(maxAttempts)
                /\ Len(writes[i]) = maxAttempts
                /\ Len(doc[i].slugAttempts) = Len(writes[i])
           ELSE /\ thrown[i] = AlreadyAttemptedError(generator[0], 3)
                /\ Len(writes[i]) = 4
                /\ Len(doc[i].slugAttempts) = 3

\* maxAttempts = 4: the fourth conflict raises the duplicate-generation error
WitC29 ==
  /\ given[1] = NULL
  /\ FirstCallDone(1)
  /\ AllWritesConflicted(1)
  /\ ConstantGenerator
  /\ maxAttempts = 4
  /\ Len(writes[1]) = 4
  /\ thrown[1] = AlreadyAttemptedError(generator[0], 3)

-----------------------------------------------------------------------------
(* C30 *)

\* the attempt indices whose candidate no other record in the scope of
\* document i holds
FreeIdx(i) == { n \in AttemptIdx : generator[n] \in SlugVals \ Taken(i) }

\* the least of them is k, and the candidates before it are taken
FirstFree(i, k) ==
  /\ k \in FreeIdx(i)
  /\ \A n \in 0..(k - 1) : generator[n] \in Taken(i)

\* truncation makes two attempt indices up to k produce the same candidate
Collapse(k) == \E a, b \in 0..k : a # b /\ generator[a] = generator[b]

\* the call of document i went on to attempt index k and succeeded there
SucceededAt(i, k) ==
  /\ pc[i] = "succeeded"
  /\ writes[i] = [n \in 1..(k + 1) |-> generator[n - 1]]
  /\ doc[i].slug = generator[k]
  /\ Record(i) \in store

NoDuplicateError(i) == thrown[i].name = "SluggerError" => thrown[i].message[1] # "Already attempted slug"

\* C30 as stated: with the field-list generator, the first save call of a
\* fresh document never raises the duplicate-generation error, and when the
\* candidates up to the first free one, at index k, collapse under
\* truncation, the call does not give up: it succeeds at index k.
CexC30 ==
  \A i \in Docs :
    /\ NoDuplicateError(i)
    /\ \A k \in AttemptIdx :
         (FreshSaved(i) /\ FirstFree(i, k) /\ Collapse(k)) => SucceededAt(i, k)

\* C30 as amended: ... it succeeds at index k if maxAttempts is absent or
\* larger than k.
ThmC30 ==
  \A i \in Docs :
    /\ NoDuplicateError(i)
    /\ \A k \in AttemptIdx :
         (FreshSaved(i) /\ FirstFree(i, k) /\ Collapse(k)
            /\ (maxAttempts = NoLimit \/ k < maxAttempts)) =>
           SucceededAt(i, k)

\* 'john' and '2' with maxLength 6: 'john-2' at attempts 0 and 1, both
\* rejected, then 'john-3' is stored
WitC30 ==
  /\ FreshSaved(1)
  /\ hookMaxLength(config) = 6
  /\ writes[1] = <<"john-2", "john-2", "john-3">>
  /\ pc[1] = "succeeded"
  /\ doc[1].slug = "john-3"

-----------------------------------------------------------------------------
(* C31 *)

\* the limit the statement names: the configured maxLength when it is
\* given, otherwise the maxlength which the slug path declares, in either
\* form, otherwise none
EffectiveMaxLength ==
  IF config.maxLength.type # "undefined" THEN config.maxLength.num
  ELSE IF schema.maxlength[schema.first.slugPath].form # "none"
         THEN schema.maxlength[schema.first.slugPath].num
         ELSE NoLimit

\* C31 as stated: on every invocation of the hook, at every attempt index,
\* the generator is passed the configured maxLength when it is given,
\* otherwise the declared maxlength of the slug path when it has one,
\* otherwise no limit.
CexC31 == slugOut.called => slugOut.maxLength = EffectiveMaxLength

-----------------------------------------------------------------------------
(* C32 *)

\* the values in a history
InHistory(h) == { h[n] : n \in 1..Len(h) }

\* a step leaves the history of document i as it is or appends the slug just
\* attempted, and appends only in the catch block for a retryable conflict
GrowsByAppend(i) ==
  \/ doc'[i].slugAttempts = doc[i].slugAttempts
  \/ /\ pc[i] = "caught"
     /\ isRetryable(doc[i], err[i])
     /\ doc'[i].slugAttempts = Append(doc[i].slugAttempts, doc[i].slug)

\* up to and in the first save call of a fresh document the history is the
\* sequence the generator returned
RecordsGenerated(i) ==
  (given[i] = NULL /\ calls[i] <= 1) =>
    \A n \in 1..Len(doc[i].slugAttempts) :
      n - 1 \in AttemptIdx /\ doc[i].slugAttempts[n] = generator[n - 1]

\* the first save call of fresh document i has succeeded
FreshSucceeded(i) == given[i] = NULL /\ calls[i] = 1 /\ pc[i] = "succeeded"

\* C32 as stated: the history only grows, by appending one value per
\* retryable conflict; in the first save call of a fresh document its i-th
\* entry is the generator's value at attempt index i; and the slug which
\* finally succeeds is not in the history.
CexC32 ==
  /\ [](\A i \in Docs :
         /\ RecordsGenerated(i)
         /\ FreshSucceeded(i) => doc[i].slug \notin InHistory(doc[i].slugAttempts))
  /\ [][\A i \in Docs : GrowsByAppend(i)]_vars

\* C32 as amended: ... and the slug which finally succeeds is not in the
\* history if the generator returned pairwise different values at the
\* attempt indices of the call.
ThmC32 ==
  /\ [](\A i \in Docs :
         /\ RecordsGenerated(i)
         /\ (FreshSucceeded(i) /\ DistinctUpTo(Len(doc[i].slugAttempts))) =>
              doc[i].slug \notin InHistory(doc[i].slugAttempts))
  /\ [][\A i \in Docs : GrowsByAppend(i)]_vars

\* two conflicts, then success with the third candidate: the history holds
\* the first two
WitC32 ==
  /\ FreshSucceeded(1)
  /\ DistinctUpTo(2)
  /\ doc[1].slugAttempts = <<generator[0], generator[1]>>
  /\ writes[1] = <<generator[0], generator[1], generator[2]>>
  /\ doc[1].slug = generator[2]

-----------------------------------------------------------------------------
(* C33 *)

\* the hook runs on document i and the generator is called
GeneratorCalled(i) == HookFires(i) /\ doc'[i].attached

\* the hook runs on document i for a write of a save call
WriteOfCall(i) == pc[i] = "attempting" /\ pc'[i] = "writing"

\* C33: a run of the hook leaves the history unchanged and sets the slug the
\* generator gave before for the same history; the attempt index grows only
\* in the catch block for a retryable conflict; and within a save call the
\* n-th write is generated for attempt index n - 1, so that the indices of
\* the call are 0, 1, 2, ... with one write each.
CexC33 ==
  [][\A i \in Docs :
       /\ GeneratorCalled(i) =>
            /\ doc'[i].slugAttempts = doc[i].slugAttempts \/ ~doc[i].attached
            /\ generator[Len(doc'[i].slugAttempts)] \in {UNDEF, doc'[i].slug}
       /\ Len(doc'[i].slugAttempts) # Len(doc[i].slugAttempts) =>
            pc[i] = "caught" /\ isRetryable(doc[i], err[i])
       /\ (WriteOfCall(i) /\ doc'[i].attached) =>
            /\ Len(doc'[i].slugAttempts) = Len(writes[i])
            /\ doc'[i].slug = generator'[Len(writes[i])]]_vars

-----------------------------------------------------------------------------
(* C34 *)

\* the connection has a db handle and the server reports a version string
\* which is not below 4.2.0
ServerSupported ==
  /\ serverStatus.db
  /\ serverStatus.status = "object"
  /\ serverStatus.version = "string"
  /\ ~semverLt(serverStatus.semver, <<4, 2, 0>>)

\* a save call of document i starts
SaveStarts(i) == calls'[i] = calls[i] + 1

\* the check of a save call of document i ends
CheckEnds(i) == pc[i] = "checking" /\ pc'[i] # "checking"

\* C34: on a wrapped model a write is submitted, and the store changed, only
\* if the server check has succeeded; a failing check rejects the save with
\* the error of the check and leaves the flag unset and the store as it is;
\* a save call runs the check exactly if the flag is unset when it starts,
\* so again after a failure and never again after a success.
ThmC34 ==
  /\ [](/\ \A i \in Docs : pc[i] = "writing" => ServerSupported /\ hasCheckedMongoDB # {}
        /\ hasCheckedMongoDB # {} => ServerSupported
        /\ ~ServerSupported => store \subseteq SeedRecords)
  /\ [][\A i \in Docs :
          /\ (CheckEnds(i) /\ ~ServerSupported) =>
               /\ pc'[i] = "failed"
               /\ thrown'[i] = checkMongoDB(serverStatus)
               /\ thrown'[i] # NoError
               /\ hasCheckedMongoDB' = {}
               /\ writes'[i] = <<>>
          /\ (CheckEnds(i) /\ ServerSupported) =>
               pc'[i] = "attempting" /\ hasCheckedMongoDB' # {}
          /\ SaveStarts(i) =>
               (pc'[i] = "checking" <=> hasCheckedMongoDB = {})]_vars

\* the second save on a server which is too old is checked and rejected as
\* the first was
WitC34 ==
  /\ calls[1] = MaxCalls
  /\ pc[1] = "failed"
  /\ serverStatus.semver = <<4, 0, 28>>
  /\ thrown[1] = PlainError(<<"At least MongoDB version 4.2.0 is required, actual version is", "4", "0", "28">>)
  /\ hasCheckedMongoDB = {}
  /\ writes[1] = <<>>

-----------------------------------------------------------------------------
(* C35 *)

\* the save call of document i has thrown the duplicate-generation error
ThrownAlreadyAttempted(i) ==
  thrown[i].name = "SluggerError" /\ thrown[i].message[1] = "Already attempted slug"

\* C35: over any sequence of save calls on a document instance no slug value
\* occurs more than 3 times in the history, and the duplicate-generation
\* error names the count 3.
ThmC35 ==
  \A i \in Docs :
    /\ \A v \in InHistory(doc[i].slugAttempts) : attemptCount(doc[i].slugAttempts, v) <= 3
    /\ ThrownAlreadyAttempted(i) =>
         /\ thrown[i].message[3] = "3"
         /\ attemptCount(doc[i].slugAttempts, thrown[i].message[2]) = 3

\* the second save call on a document whose history holds 'john' three
\* times gives up as the first did, and the history is as it was
WitC35 ==
  /\ calls[1] = 2
  /\ doc[1].slugAttempts = <<"john", "john", "john">>
  /\ pc[1] = "givingUp"
  /\ writes[1] = <<"john">>
  /\ thrown[1] = AlreadyAttemptedError("john", 3)

-----------------------------------------------------------------------------
(* C36 *)

\* the values the generator has returned
GeneratorValues == { generator[n] : n \in DOMAIN generator } \ {UNDEF}

\* C36: without maxAttempts, a save call whose generator has returned K
\* distinct values has made at most 3K + 1 writes, and every save call
\* terminates.
ThmC36 ==
  /\ [](\A i \in Docs : Len(writes[i]) <= 3 * Cardinality(GeneratorValues) + 1)
  /\ \A i \in Docs : InCall(i) ~> (pc[i] \in Terminated)

\* a generator cycling through two values, both taken: the call gives up at
\* its seventh write
WitC36 ==
  /\ maxAttempts = NoLimit
  /\ calls[1] = 1
  /\ Cardinality(GeneratorValues) = 2
  /\ Len(writes[1]) = 7
  /\ pc[1] = "givingUp"
  /\ ThrownAlreadyAttempted(1)

-----------------------------------------------------------------------------
(* C37 *)

\* no routine is active twice in the save call of document i
NoRecursion(i) ==
  \A a, b \in 1..Len(frames[i]) : a # b => frames[i][a] # frames[i][b]

\* C37: after wrap has been called two or more times on the model, the
\* delegate slot holds the original save routine and no save call enters a
\* wrapper from within the same wrapper.
CexC37 ==
  proto.wrappers >= 2 =>
    /\ proto.delegate = OriginalSave
    /\ \A i \in Docs : NoRecursion(i)

-----------------------------------------------------------------------------
(* C38 *)

\* the catch block handles the rejected write of document i
CatchStep(i) == pc[i] = "caught" /\ pc'[i] # "caught"

\* the save call of document i throws the exhausted-attempts error
ThrowsReached(i) == thrown'[i].name = "SluggerError" /\ thrown'[i].message[1] = "Reached"

\* the save call of document i throws the duplicate-generation error
ThrowsAlreadyAttempted(i) ==
  thrown'[i].name = "SluggerError" /\ thrown'[i].message[1] = "Already attempted slug"

\* C38: the store's answer to a write leaves the document as it was written;
\* for an error which is not retryable the catch block leaves the history
\* and the slug as they were and throws the error; when it throws the
\* duplicate-generation error the history is unchanged; when it throws the
\* exhausted-attempts error the attempted slug has been appended and the
\* history has at least maxAttempts entries.
ThmC38 ==
  [][\A i \in Docs :
       /\ pc[i] = "writing" => doc'[i] = doc[i]
       /\ (CatchStep(i) /\ ~isRetryable(doc[i], err[i])) =>
            /\ doc'[i] = doc[i]
            /\ pc'[i] = "failed"
            /\ thrown'[i] = err[i]
       /\ (CatchStep(i) /\ ThrowsAlreadyAttempted(i)) =>
            /\ doc'[i] = doc[i]
            /\ pc'[i] = "givingUp"
       /\ (CatchStep(i) /\ ThrowsReached(i)) =>
            /\ doc'[i].slugAttempts = Append(doc[i].slugAttempts, doc[i].slug)
            /\ doc'[i].slug = doc[i].slug
            /\ maxAttempts # NoLimit
            /\ Len(doc'[i].slugAttempts) >= maxAttempts
            /\ pc'[i] = "givingUp"]_vars

\* the second save call with maxAttempts = 1 has given up with two entries
\* in the history
WitC38 ==
  /\ maxAttempts = 1
  /\ calls[1] = 2
  /\ pc[1] = "givingUp"
  /\ thrown[1] = ReachedAttemptsError(2)
  /\ Len(doc[1].slugAttempts) = 2
  /\ doc[1].slugAttempts[2] = doc[1].slug

====
